---------------------------- MODULE Spec2Model ----------------------------
(***************************************************************************)
(* A model of the RESP key-value server: the RESP codec (resp_parser.h),   *)
(* the command dispatcher (proto_handler.h), the keyspace with its         *)
(* readers-writer lock and snapshot file (kv_store.h), the worker reactor  *)
(* (async_server.h) and the snapshot thread (main.cpp).                    *)
(*                                                                         *)
(* A byte is a one-character string; a byte string (std::string) is a      *)
(* sequence of bytes.  Positions are 0-based as in the code; At(s, i) is   *)
(* s[i] of the code.                                                       *)
(***************************************************************************)
EXTENDS Integers, Sequences, FiniteSets, TLC

VARIABLES
    data,       \* KVStore::data, the keyspace: a function key -> value
    \* the dispatcher alone (SpecDispatch)
    hpc,        \* "idle", "called", "returned", "crashed"
    request,    \* the argument of the handle_request call in progress
    response,   \* the byte string handle_request returned
    before,     \* the keyspace when the call was made
    model,      \* reference map of the requests answered so far
    \* the keyspace under its threads (Spec)
    mutex,      \* KVStore::mutex: the threads holding it shared and exclusively
    tpc,        \* per worker thread: where it is in get, set or del
    targ,       \* per worker thread: the key and value of its call
    tres,       \* per worker thread: what its call returns
    lin,        \* the map the writes make in the order they took the lock
    \* persistToDisk and its caller
    spc,        \* "open", "lock", "loop", "sleep", "threw", "terminated"
    todo,       \* the keys the iteration has still to write
    snapAt,     \* the keyspace when persistToDisk took the lock
    file,       \* kvstore.dat: whether it exists, and its bytes
    outBad,     \* outFile's badbit: a write failed
    diskFaults, \* whether writes to the file can fail
    \* KVStore::KVStore and loadFromDisk of a fresh keyspace
    lpc,        \* "none", "loop", "done", "threw", "spin", "undefined"
    lsize,      \* the eight bytes of the local size, low byte first
    lpos,       \* inFile's read position
    lfail,      \* inFile's failbit
    loaded,     \* the fresh keyspace's data
    \* one Worker and the connections of its clients
    wpc,        \* "running", "crashed", "terminated"
    cstate,     \* per connection: "none", "pending", "open", "closed"
    peer,       \* per connection, the client's end: "up", "closed", "reset"
    inbuf,      \* per connection: bytes received and not yet read
    ready,      \* per connection: an edge-triggered event is pending
    writes,     \* how many requests the clients wrote
    last,       \* the last handleClient call: its read, request, reply, send
    \* a caller of RESPParser::parse going through a buffer
    psrc,       \* what the buffer was made of
    pbuf,       \* the buffer
    ppos,       \* the cursor
    pgot,       \* the values returned so far
    ppc,        \* "more", "done", "threw", "undefined"
    \* AsyncServer, its workers and their threads
    mpc,        \* main: "constructed", "starting", "serving", "stopping", "stopped", "destroyed"
    mi,         \* the worker main is starting or stopping
    srun,       \* AsyncServer::running_
    wrun,       \* per worker: Worker::running_
    wth,        \* per worker, its thread: "none", "wait", "dispatch", "left", "joined"
    wopen,      \* per worker: server_fd_ and epoll_fd_ are open
    lsn,        \* per worker: epoll_wait returned the event of server_fd_
    owner,      \* per connection: the worker whose socket it came to, or 0
    edge,       \* per connection: an event waits in its epoll's ready list
    werr,       \* per worker: the reactor error it met, or "none"
    arrived,    \* per connection: the bytes its client wrote
    calls,      \* per connection: the handler calls, in order
    wire        \* per connection: the bytes send put on it, in order

dispVars == <<hpc, request, response, before, model>>
lockVars == <<mutex, tpc, targ, tres, lin>>
snapVars == <<spc, todo, snapAt, file, outBad, diskFaults>>
loadVars == <<lpc, lsize, lpos, lfail, loaded>>

netVars  == <<wpc, cstate, peer, inbuf, ready, writes, last>>
parseVars == <<psrc, pbuf, ppos, pgot, ppc>>
srvVars  == <<mpc, mi, srun, wrun, wth, wopen, lsn, owner, edge, werr, arrived, calls, wire>>

vars == <<data, dispVars, lockVars, snapVars, loadVars, netVars, parseVars, srvVars>>

-----------------------------------------------------------------------------
(* Byte strings                                                            *)

At(s, i) == s[i + 1]

\* s.substr(pos, n) for pos + n <= s.size()
Substr(s, pos, n) == SubSeq(s, pos + 1, pos + n)

CRLF == <<"\r", "\n">>

Digits == {"0", "1", "2", "3", "4", "5", "6", "7", "8", "9"}

DigitVal(c) ==
    CASE c = "0" -> 0 [] c = "1" -> 1 [] c = "2" -> 2 [] c = "3" -> 3
      [] c = "4" -> 4 [] c = "5" -> 5 [] c = "6" -> 6 [] c = "7" -> 7
      [] c = "8" -> 8 [] c = "9" -> 9

DigitChr(n) ==
    CASE n = 0 -> "0" [] n = 1 -> "1" [] n = 2 -> "2" [] n = 3 -> "3"
      [] n = 4 -> "4" [] n = 5 -> "5" [] n = 6 -> "6" [] n = 7 -> "7"
      [] n = 8 -> "8" [] n = 9 -> "9"

RECURSIVE DecVal(_)
\* the value of a non-empty run of decimal digits
DecVal(ds) ==
    IF Len(ds) = 0 THEN 0
    ELSE 10 * DecVal(SubSeq(ds, 1, Len(ds) - 1)) + DigitVal(ds[Len(ds)])

RECURSIVE to_string(_)
\* std::to_string of a size_t
to_string(n) ==
    IF n < 10 THEN <<DigitChr(n)>>
    ELSE to_string(n \div 10) \o <<DigitChr(n % 10)>>

\* std::from_chars into an int64_t over the whole span s, followed by the
\* callers' test "ec != errc() || ptr != end": an optional '-', then one or
\* more digits and nothing else.  The numeric fields of the model's inputs
\* have at most 9 digits, so result_out_of_range does not arise.
FromChars(s) ==
    LET neg == Len(s) > 0 /\ s[1] = "-"
        ds  == IF neg THEN SubSeq(s, 2, Len(s)) ELSE s
        ok  == Len(ds) > 0 /\ \A i \in 1..Len(ds) : ds[i] \in Digits
    IN  [ok  |-> ok,
         val |-> IF ~ok THEN 0 ELSE IF neg THEN 0 - DecVal(ds) ELSE DecVal(ds)]

NPOS == -1

RECURSIVE Find(_, _)
\* input.find("\r\n", pos)
Find(input, pos) ==
    IF pos + 1 >= Len(input) THEN NPOS
    ELSE IF At(input, pos) = "\r" /\ At(input, pos + 1) = "\n" THEN pos
    ELSE Find(input, pos + 1)

-----------------------------------------------------------------------------
(* The what() strings of the exceptions the codec raises                   *)

WhatUnexpectedEnd ==
    <<"U", "n", "e", "x", "p", "e", "c", "t", "e", "d", " ", "e", "n", "d", " ", "o", "f", " ",
    "i", "n", "p", "u", "t">>
WhatInvalidPrefix ==
    <<"I", "n", "v", "a", "l", "i", "d", " ", "R", "E", "S", "P", " ", "p", "r", "e", "f", "i",
    "x", ":", " ", "'">>
WhatUntermSimple ==
    <<"U", "n", "t", "e", "r", "m", "i", "n", "a", "t", "e", "d", " ", "s", "i", "m", "p", "l",
    "e", " ", "s", "t", "r", "i", "n", "g">>
WhatUntermError ==
    <<"U", "n", "t", "e", "r", "m", "i", "n", "a", "t", "e", "d", " ", "e", "r", "r", "o", "r">>
WhatUntermInteger ==
    <<"U", "n", "t", "e", "r", "m", "i", "n", "a", "t", "e", "d", " ", "i", "n", "t", "e", "g",
    "e", "r">>
WhatInvalidInteger ==
    <<"I", "n", "v", "a", "l", "i", "d", " ", "i", "n", "t", "e", "g", "e", "r", " ", "f", "o",
    "r", "m", "a", "t">>
WhatUntermBulkLen ==
    <<"U", "n", "t", "e", "r", "m", "i", "n", "a", "t", "e", "d", " ", "b", "u", "l", "k", " ",
    "s", "t", "r", "i", "n", "g", " ", "l", "e", "n", "g", "t", "h">>
WhatInvalidBulkLen ==
    <<"I", "n", "v", "a", "l", "i", "d", " ", "b", "u", "l", "k", " ", "s", "t", "r", "i", "n",
    "g", " ", "l", "e", "n", "g", "t", "h">>
WhatIncompleteBulk ==
    <<"I", "n", "c", "o", "m", "p", "l", "e", "t", "e", " ", "b", "u", "l", "k", " ", "s", "t",
    "r", "i", "n", "g">>
WhatInvalidBulkTerm ==
    <<"I", "n", "v", "a", "l", "i", "d", " ", "b", "u", "l", "k", " ", "s", "t", "r", "i", "n",
    "g", " ", "t", "e", "r", "m", "i", "n", "a", "t", "o", "r">>
WhatUntermArrayLen ==
    <<"U", "n", "t", "e", "r", "m", "i", "n", "a", "t", "e", "d", " ", "a", "r", "r", "a", "y",
    " ", "l", "e", "n", "g", "t", "h">>
WhatInvalidArrayLen ==
    <<"I", "n", "v", "a", "l", "i", "d", " ", "a", "r", "r", "a", "y", " ", "l", "e", "n", "g",
    "t", "h">>
\* std::length_error of std::string::assign with a count above max_size()
WhatStringLength ==
    <<"b", "a", "s", "i", "c", "_", "s", "t", "r", "i", "n", "g", ":", ":", "_", "M", "_", "r",
    "e", "p", "l", "a", "c", "e">>
\* std::length_error of std::vector::reserve with a count above max_size()
WhatVectorReserve ==
    <<"v", "e", "c", "t", "o", "r", ":", ":", "r", "e", "s", "e", "r", "v", "e">>

-----------------------------------------------------------------------------
(* RESPValue and RESPParser                                                *)

\* RESPValue(Type t): intValue is set by parseInteger only and read by
\* nobody; it is 0 here where the code leaves it unset.
RESPValue(t) == [type |-> t, strValue |-> <<>>, intValue |-> 0, arrayValue |-> <<>>]

\* The outcomes of a parse: a value and the cursor after it, an exception,
\* or undefined behaviour (an out-of-bounds read of the input).
Parsed(v, p) == [kind |-> "value", val |-> v, pos |-> p]
Throw(w)     == [kind |-> "throw", what |-> w]
Undefined    == [kind |-> "ub"]

parseSimpleString(input, pos) ==
    LET end == Find(input, pos)
    IN  IF end = NPOS THEN Throw(WhatUntermSimple)
        ELSE Parsed([RESPValue("SimpleString") EXCEPT
                        !.strValue = Substr(input, pos, end - pos)], end + 2)

parseError(input, pos) ==
    LET end == Find(input, pos)
    IN  IF end = NPOS THEN Throw(WhatUntermError)
        ELSE Parsed([RESPValue("Error") EXCEPT
                        !.strValue = Substr(input, pos, end - pos)], end + 2)

parseIntegerMutant(input, pos) ==
    LET end == Find(input, pos)
    IN  IF end = NPOS THEN Throw(WhatUntermInteger)
        ELSE Parsed([RESPValue("Integer") EXCEPT
                        !.intValue = FromChars(Substr(input, pos, end - pos)).val], end)

parseInteger(input, pos) ==
    LET end == Find(input, pos)
    IN  IF end = NPOS THEN Throw(WhatUntermInteger)
        ELSE LET num == FromChars(Substr(input, pos, end - pos))
             IN  IF ~num.ok THEN Throw(WhatInvalidInteger)
                 ELSE Parsed([RESPValue("Integer") EXCEPT !.intValue = num.val],
                             end + 2)

\* "pos + static_cast<size_t>(length) + 2 > input.size()" is computed in
\* size_t: a negative length wraps, so the sum is below 0 here exactly when
\* it is a huge size_t in the code.
parseBulkStringBody(input, pos, length) ==
    LET sum == pos + length + 2
        idx == pos + length
    IN  IF sum < 0 \/ sum > Len(input) THEN Throw(WhatIncompleteBulk)
        ELSE IF idx < 0 THEN Undefined      \* input[pos + length] before the buffer
        ELSE IF At(input, idx) # "\r" \/ At(input, idx + 1) # "\n"
             THEN Throw(WhatInvalidBulkTerm)
        ELSE IF length < 0 THEN Throw(WhatStringLength)   \* assign(p, size_t(length))
        ELSE Parsed([RESPValue("BulkString") EXCEPT
                        !.strValue = Substr(input, pos, length)], pos + length + 2)

parseBulkString(input, pos) ==
    LET lenEnd == Find(input, pos)
    IN  IF lenEnd = NPOS THEN Throw(WhatUntermBulkLen)
        ELSE LET num == FromChars(Substr(input, pos, lenEnd - pos))
             IN  IF ~num.ok THEN Throw(WhatInvalidBulkLen)
                 ELSE IF num.val = -1 THEN Parsed(RESPValue("Null"), lenEnd + 2)
                 ELSE parseBulkStringBody(input, lenEnd + 2, num.val)

RECURSIVE parse(_, _)
RECURSIVE parseElements(_, _, _, _)

\* the loop of parseArray: n values still to parse, acc those parsed
parseElements(input, pos, n, acc) ==
    IF n = 0 THEN Parsed([RESPValue("Array") EXCEPT !.arrayValue = acc], pos)
    ELSE LET r == parse(input, pos)
         IN  IF r.kind # "value" THEN r
             ELSE parseElements(input, r.pos, n - 1, Append(acc, r.val))

parseArray(input, pos) ==
    LET lenEnd == Find(input, pos)
    IN  IF lenEnd = NPOS THEN Throw(WhatUntermArrayLen)
        ELSE LET num == FromChars(Substr(input, pos, lenEnd - pos))
             IN  IF ~num.ok THEN Throw(WhatInvalidArrayLen)
                 ELSE IF num.val = -1 THEN Parsed(RESPValue("Null"), lenEnd + 2)
                 ELSE IF num.val < 0 THEN Throw(WhatVectorReserve)  \* reserve(size_t(length))
                 ELSE parseElements(input, lenEnd + 2, num.val, <<>>)

parse(input, pos) ==
    IF pos >= Len(input) THEN Throw(WhatUnexpectedEnd)
    ELSE LET prefix == At(input, pos)
         IN  CASE prefix = "+" -> parseSimpleString(input, pos + 1)
               [] prefix = "-" -> parseError(input, pos + 1)
               [] prefix = ":" -> parseInteger(input, pos + 1)
               [] prefix = "$" -> parseBulkString(input, pos + 1)
               [] prefix = "*" -> parseArray(input, pos + 1)
               [] OTHER -> Throw(WhatInvalidPrefix \o <<prefix, "'">>)

createRESPResponseMutant(value) == <<"$">> \o to_string(Len(value)) \o CRLF \o value

createRESPResponse(value) == <<"$">> \o to_string(Len(value)) \o CRLF \o value \o CRLF

createOKResponse == <<"+", "O", "K", "\r", "\n">>

createErrorResponse(message) == <<"-">> \o message \o CRLF

createMissingResponse == <<"$", "-", "1", "\r", "\n">>

createDELResponse(deleted) ==
    IF deleted THEN <<":", "1", "\r", "\n">> ELSE <<":", "0", "\r", "\n">>

-----------------------------------------------------------------------------
(* KVStore: the map operations, without the locking (see the threads below) *)

MsgInvalidCommand ==
    <<"E", "R", "R", " ", "i", "n", "v", "a", "l", "i", "d", " ", "c", "o", "m", "m", "a", "n",
    "d">>
MsgUnknownCommand ==
    <<"E", "R", "R", " ", "u", "n", "k", "n", "o", "w", "n", " ", "c", "o", "m", "m", "a", "n",
    "d">>
ErrPrefix == <<"E", "R", "R", " ">>

GET == <<"G", "E", "T">>
SET == <<"S", "E", "T">>
DEL == <<"D", "E", "L">>

\* std::optional<std::string>
Nullopt == [has |-> FALSE, value |-> <<>>]
Some(v) == [has |-> TRUE, value |-> v]

\* data[key] = value
MapAssign(d, key, value) ==
    [k \in DOMAIN d \cup {key} |-> IF k = key THEN value ELSE d[k]]

\* data.find(key), it->second
MapFind(d, key) == IF key \in DOMAIN d THEN Some(d[key]) ELSE Nullopt

\* an erase that reports the entry and leaves it in the map
MapEraseMutant(d, key) ==
    [data  |-> d,
     count |-> IF key \in DOMAIN d THEN 1 ELSE 0]

\* data.erase(key): the map left and the number of entries erased
MapErase(d, key) ==
    [data  |-> [k \in DOMAIN d \ {key} |-> d[k]],
     count |-> IF key \in DOMAIN d THEN 1 ELSE 0]

-----------------------------------------------------------------------------
(* RedisProtocolHandler                                                    *)

\* What process_command decides before it touches the store: an error
\* reply, or the store call to make.
Reply(r)      == [op |-> "reply", reply |-> r]
StoreGet(k)   == [op |-> "get", key |-> k]
StoreSet(k, v) == [op |-> "set", key |-> k, value |-> v]
StoreDel(k)   == [op |-> "del", key |-> k]

\* the first element may name a command
IsNameMutant(cmd) == TRUE
IsName(cmd) == cmd.type = "BulkString" \/ cmd.type = "SimpleString"

\* command_str == "<name>" && command->arrayValue.size() == <n>
MatchesMutant(command_str, size, name, n) == command_str = name /\ size >= n
Matches(command_str, size, name, n) == command_str = name /\ size = n

command_ofMutant(command) ==
    IF command.type # "Array" \/ Len(command.arrayValue) = 0
    THEN Reply(createErrorResponse(MsgInvalidCommand))
    ELSE LET cmd         == command.arrayValue[1]
             command_str == cmd.strValue
             size        == Len(command.arrayValue)
         IN  IF \E i \in 1..size : ~IsName(command.arrayValue[i])
             THEN Reply(createErrorResponse(MsgInvalidCommand))
             ELSE IF Matches(command_str, size, GET, 2)
             THEN StoreGet(command.arrayValue[2].strValue)
             ELSE IF Matches(command_str, size, SET, 3)
             THEN StoreSet(command.arrayValue[2].strValue, command.arrayValue[3].strValue)
             ELSE IF Matches(command_str, size, DEL, 2)
             THEN StoreDel(command.arrayValue[2].strValue)
             ELSE Reply(createErrorResponse(MsgUnknownCommand))

\* process_command up to the call of the store: the command it finds
command_of(command) ==
    IF command.type # "Array" \/ Len(command.arrayValue) = 0
    THEN Reply(createErrorResponse(MsgInvalidCommand))
    ELSE LET cmd         == command.arrayValue[1]
             command_str == cmd.strValue
             size        == Len(command.arrayValue)
         IN  IF ~IsName(cmd)
             THEN Reply(createErrorResponse(MsgInvalidCommand))
             ELSE IF Matches(command_str, size, GET, 2)
             THEN StoreGet(command.arrayValue[2].strValue)
             ELSE IF Matches(command_str, size, SET, 3)
             THEN StoreSet(command.arrayValue[2].strValue, command.arrayValue[3].strValue)
             ELSE IF Matches(command_str, size, DEL, 2)
             THEN StoreDel(command.arrayValue[2].strValue)
             ELSE Reply(createErrorResponse(MsgUnknownCommand))

\* process_command on keyspace d: the reply and the keyspace left
process_command(d, command) ==
    LET c == command_of(command)
    IN  CASE c.op = "reply" -> [reply |-> c.reply, data |-> d]
          [] c.op = "get" ->
                LET value == MapFind(d, c.key)
                IN  [reply |-> IF value.has THEN createRESPResponse(value.value)
                                            ELSE createMissingResponse,
                     data  |-> d]
          [] c.op = "set" ->
                [reply |-> createOKResponse, data |-> MapAssign(d, c.key, c.value)]
          [] c.op = "del" ->
                LET e == MapErase(d, c.key)
                IN  [reply |-> createDELResponse(e.count > 0), data |-> e.data]

\* The outcomes of an out-of-bounds read of the request in parseBulkString:
\* the bytes read fail the terminator test, or pass it and assign throws.
\* (A fault of the process is the third outcome: see HandlerFaults.)
UndefinedThrows == {Throw(WhatInvalidBulkTerm), Throw(WhatStringLength)}

\* handle_request for a parse outcome r that is not undefined
handle_parsed(d, r) ==
    IF r.kind = "value" THEN process_command(d, r.val)
    ELSE [reply |-> createErrorResponse(ErrPrefix \o r.what), data |-> d]

handle_requestMutant(d, req) ==
    LET r == parse(req, 0)
    IN  IF r.kind = "ub" THEN {handle_parsed(d, t) : t \in UndefinedThrows}
        ELSE IF r.kind = "value" /\ r.pos < Len(req) /\ parse(req, r.pos).kind # "ub"
        THEN {[reply |-> handle_parsed(d, r).reply,
               data  |-> handle_parsed(handle_parsed(d, r).data, parse(req, r.pos)).data]}
        ELSE {handle_parsed(d, r)}

\* handle_request: the set of (reply, keyspace) outcomes
handle_request(d, req) ==
    LET r == parse(req, 0)
    IN  IF r.kind = "ub" THEN {handle_parsed(d, t) : t \in UndefinedThrows}
        ELSE {handle_parsed(d, r)}

-----------------------------------------------------------------------------
(* Requests of the dispatcher harness                                      *)

MaxElems == 3

\* client-side encoding of a bulk string and of an array header
BulkFrame(s)   == <<"$">> \o to_string(Len(s)) \o CRLF \o s \o CRLF
ArrayHeader(n) == <<"*">> \o to_string(n) \o CRLF

Keys   == {<<>>, <<"a">>}
Values == {<<>>, <<"a">>, CRLF}

\* the values the threads of Spec write
ThreadValues == {<<>>, <<"a">>}

\* byte strings that are no array of strings
RawRequests ==
    {<<>>,
     <<"%", "2", "\r", "\n">>,
     <<"\r">>,
     <<"+", "O", "K", "\r", "\n">>,
     <<"+", "O", "K">>,
     <<"-", "x", "\r", "\n">>,
     <<"-", "x">>,
     <<":", "5", "\r", "\n">>,
     <<":", "-", "5", "\r", "\n">>,
     <<":", "5", "x", "\r", "\n">>,
     <<":", "\r", "\n">>,
     <<":", "-", "\r", "\n">>,
     <<":", "5">>,
     <<"$", "1", "\r", "\n", "a", "\r", "\n">>,
     <<"$", "0", "\r", "\n", "\r", "\n">>,
     <<"$", "-", "1", "\r", "\n">>,
     <<"$", "1", "\r", "\n", "a">>,
     <<"$", "1", "\r", "\n", "a", "b", "\r", "\n">>,
     <<"$", "x", "\r", "\n">>,
     <<"$", "1">>,
     <<"$", "5", "\r", "\n", "a", "\r", "\n">>,
     <<"$", "-", "2", "\r", "\n">>,
     <<"$", "-", "3", "\r", "\n">>,
     <<"$", "-", "6", "\r", "\n">>,
     <<"$", "-", "7", "\r", "\n">>,
     <<"$", "-", "9", "\r", "\n">>,
     <<"*", "-", "1", "\r", "\n">>,
     <<"*", "x", "\r", "\n">>,
     <<"*", "2">>,
     <<"*", "-", "2", "\r", "\n">>,
     <<"*", "1", "\r", "\n", "*", "0", "\r", "\n">>,
     <<"*", "1", "\r", "\n", "-", "e", "\r", "\n">>,
     <<"*", "1", "\r", "\n", "$", "-", "1", "\r", "\n">>,
     <<"*", "1", "\r", "\n", ":", "5", "\r", "\n">>,
     <<"*", "2", "\r", "\n", "*", "1", "\r", "\n", "$", "3", "\r", "\n", "G", "E", "T",
       "\r", "\n", "$", "1", "\r", "\n", "a", "\r", "\n">>}

\* first elements: the three commands, and names that are none of them
NameTokens ==
    {BulkFrame(GET), BulkFrame(SET), BulkFrame(DEL),
     BulkFrame(<<"g", "e", "t">>), BulkFrame(<<"P", "I", "N", "G">>),
     <<"+", "G", "E", "T", "\r", "\n">>, <<"+", "D", "E", "L", "\r", "\n">>}

\* second elements: the keys as bulk strings, an integer, a short bulk string
KeyTokens ==
    {BulkFrame(k) : k \in Keys}
        \cup {<<":", "5", "\r", "\n">>, <<"$", "2", "\r", "\n", "a", "\r", "\n">>}

\* later elements: the values as bulk strings, and a null
ValueTokens == {BulkFrame(v) : v \in Values} \cup {<<"$", "-", "1", "\r", "\n">>}

RECURSIVE ElemSeqs(_)
\* the concatenations of n elements: a name, a key, values
ElemSeqs(n) ==
    IF n = 0 THEN {<<>>}
    ELSE LET toks == IF n = 1 THEN NameTokens ELSE IF n = 2 THEN KeyTokens ELSE ValueTokens
         IN  {p \o t : p \in ElemSeqs(n - 1), t \in toks}

\* every header 0..MaxElems+1 before every run of at most MaxElems elements
ArrayRequests ==
    UNION {{ArrayHeader(h) \o es : es \in ElemSeqs(n)} :
              h \in 0..(MaxElems + 1), n \in 0..MaxElems}

\* commands whose arguments are arrays, null arrays, errors, simple strings
NullArrayToken == <<"*", "-", "1", "\r", "\n">>
TypedArgRequests ==
    {ArrayHeader(2) \o BulkFrame(n) \o a :
        n \in {GET, DEL},
        a \in {ArrayHeader(0), NullArrayToken, ArrayHeader(1) \o BulkFrame(<<"a">>),
               <<"+", "a", "\r", "\n">>, <<"-", "a", "\r", "\n">>}}
    \cup {ArrayHeader(3) \o BulkFrame(SET) \o k \o v :
            k \in {ArrayHeader(0), <<"+", "a", "\r", "\n">>},
            v \in {ArrayHeader(1) \o BulkFrame(<<"a">>), <<":", "5", "\r", "\n">>,
                   <<"-", "a", "\r", "\n">>}}

Requests == RawRequests \cup ArrayRequests \cup TypedArgRequests

-----------------------------------------------------------------------------
(* The dispatcher alone: one caller, one handle_request call at a time     *)

\* the well-formed commands and their frames
Commands ==
    [name : {"GET", "DEL"}, key : Keys] \cup [name : {"SET"}, key : Keys, value : Values]

Frame(c) ==
    CASE c.name = "GET" -> ArrayHeader(2) \o BulkFrame(GET) \o BulkFrame(c.key)
      [] c.name = "DEL" -> ArrayHeader(2) \o BulkFrame(DEL) \o BulkFrame(c.key)
      [] c.name = "SET" ->
            ArrayHeader(3) \o BulkFrame(SET) \o BulkFrame(c.key) \o BulkFrame(c.value)

\* the reference map: a set of (key, value) pairs, at most one per key
RefBound(m, k) == \E p \in m : p[1] = k
RefValue(m, k) == (CHOOSE p \in m : p[1] = k)[2]
RefApply(m, c) ==
    CASE c.name = "GET" -> m
      [] c.name = "DEL" -> {p \in m : p[1] # c.key}
      [] c.name = "SET" -> {p \in m : p[1] # c.key} \cup {<<c.key, c.value>>}
RefReply(m, c) ==
    CASE c.name = "GET" ->
            IF RefBound(m, c.key) THEN BulkFrame(RefValue(m, c.key))
            ELSE <<"$", "-", "1", "\r", "\n">>
      [] c.name = "DEL" ->
            IF RefBound(m, c.key) THEN <<":", "1", "\r", "\n">>
            ELSE <<":", "0", "\r", "\n">>
      [] c.name = "SET" -> <<"+", "O", "K", "\r", "\n">>

\* the pairs of a keyspace
Pairs(d) == {<<k, d[k]>> : k \in DOMAIN d}

EmptyMap == [k \in {} |-> <<>>]

Call(req) ==
    /\ hpc = "idle"
    /\ hpc' = "called"
    /\ request' = req
    /\ before' = data
    /\ UNCHANGED <<data, response, model, lockVars, snapVars, loadVars, netVars, parseVars, srvVars>>

Return ==
    /\ hpc = "called"
    /\ \E out \in handle_request(data, request) :
          /\ response' = out.reply
          /\ data' = out.data
    /\ hpc' = "returned"
    /\ UNCHANGED <<request, before, model, lockVars, snapVars, loadVars, netVars, parseVars, srvVars>>

\* the out-of-bounds read faults and the process dies
HandlerFaults ==
    /\ hpc = "called"
    /\ parse(request, 0).kind = "ub"
    /\ hpc' = "crashed"
    /\ UNCHANGED <<data, request, response, before, model, lockVars, snapVars, loadVars, netVars, parseVars, srvVars>>

\* the caller takes the reply; the reference map follows a well-formed
\* command and is set to the keyspace after any other request
Done ==
    /\ hpc = "returned"
    /\ hpc' = "idle"
    /\ model' = IF \E c \in Commands : Frame(c) = request
                THEN RefApply(model, CHOOSE c \in Commands : Frame(c) = request)
                ELSE Pairs(data)
    /\ request' = <<>>
    /\ response' = <<>>
    /\ before' = EmptyMap
    /\ UNCHANGED <<data, lockVars, snapVars, loadVars, netVars, parseVars, srvVars>>

-----------------------------------------------------------------------------
(* std::shared_mutex, and the lock each KVStore method takes               *)

NumWorkers == 2

Workers    == 1..NumWorkers
SnapThread == 0

\* whether a lock of this mode can be taken now
CanLock(m, mode) ==
    CASE mode = "unique" -> m.shared = {} /\ m.exclusive = {}
      [] mode = "shared" -> m.exclusive = {}
      [] mode = "none"   -> TRUE

Locked(m, mode, t) ==
    CASE mode = "unique" -> [m EXCEPT !.exclusive = @ \cup {t}]
      [] mode = "shared" -> [m EXCEPT !.shared = @ \cup {t}]
      [] mode = "none"   -> m

\* the destructor of the lock object
Unlocked(m, t) == [shared |-> m.shared \ {t}, exclusive |-> m.exclusive \ {t}]

set_lockMutant == "shared"
set_lock == "unique"        \* std::unique_lock lock(mutex) in set

get_lock == "shared"        \* std::shared_lock lock(mutex) in get

del_lock == "unique"        \* std::unique_lock lock(mutex) in del

persist_lockMutant == "none"
persist_lock == "shared"    \* std::shared_lock lock(mutex) in persistToDisk

-----------------------------------------------------------------------------
(* KVStore::get, set and del, called by the worker threads                 *)

NoArg    == [key |-> <<>>, value |-> <<>>]
NoResult == [none |-> TRUE]

Alive == spc # "terminated"

CallGet(t, k) ==
    /\ Alive /\ tpc[t] = "idle"
    /\ tpc' = [tpc EXCEPT ![t] = "get_lock"]
    /\ targ' = [targ EXCEPT ![t] = [key |-> k, value |-> <<>>]]
    /\ UNCHANGED <<data, mutex, tres, lin, dispVars, snapVars, loadVars, netVars, parseVars, srvVars>>

GetLock(t) ==
    /\ Alive /\ tpc[t] = "get_lock"
    /\ CanLock(mutex, get_lock)
    /\ mutex' = Locked(mutex, get_lock, t)
    /\ tpc' = [tpc EXCEPT ![t] = "get_find"]
    /\ UNCHANGED <<data, targ, tres, lin, dispVars, snapVars, loadVars, netVars, parseVars, srvVars>>

GetFind(t) ==
    /\ Alive /\ tpc[t] = "get_find"
    /\ tres' = [tres EXCEPT ![t] = MapFind(data, targ[t].key)]
    /\ tpc' = [tpc EXCEPT ![t] = "get_ret"]
    /\ UNCHANGED <<data, mutex, targ, lin, dispVars, snapVars, loadVars, netVars, parseVars, srvVars>>

GetReturn(t) ==
    /\ Alive /\ tpc[t] = "get_ret"
    /\ mutex' = Unlocked(mutex, t)
    /\ tpc' = [tpc EXCEPT ![t] = "idle"]
    /\ targ' = [targ EXCEPT ![t] = NoArg]
    /\ tres' = [tres EXCEPT ![t] = NoResult]
    /\ UNCHANGED <<data, lin, dispVars, snapVars, loadVars, netVars, parseVars, srvVars>>

CallSet(t, k, v) ==
    /\ Alive /\ tpc[t] = "idle"
    /\ tpc' = [tpc EXCEPT ![t] = "set_lock"]
    /\ targ' = [targ EXCEPT ![t] = [key |-> k, value |-> v]]
    /\ UNCHANGED <<data, mutex, tres, lin, dispVars, snapVars, loadVars, netVars, parseVars, srvVars>>

SetLock(t) ==
    /\ Alive /\ tpc[t] = "set_lock"
    /\ CanLock(mutex, set_lock)
    /\ mutex' = Locked(mutex, set_lock, t)
    /\ lin' = MapAssign(lin, targ[t].key, targ[t].value)
    /\ tpc' = [tpc EXCEPT ![t] = "set_assign"]
    /\ UNCHANGED <<data, targ, tres, dispVars, snapVars, loadVars, netVars, parseVars, srvVars>>

SetAssign(t) ==
    /\ Alive /\ tpc[t] = "set_assign"
    /\ data' = MapAssign(data, targ[t].key, targ[t].value)
    /\ tpc' = [tpc EXCEPT ![t] = "set_ret"]
    /\ UNCHANGED <<mutex, targ, tres, lin, dispVars, snapVars, loadVars, netVars, parseVars, srvVars>>

SetReturn(t) ==
    /\ Alive /\ tpc[t] = "set_ret"
    /\ mutex' = Unlocked(mutex, t)
    /\ tpc' = [tpc EXCEPT ![t] = "idle"]
    /\ targ' = [targ EXCEPT ![t] = NoArg]
    /\ UNCHANGED <<data, tres, lin, dispVars, snapVars, loadVars, netVars, parseVars, srvVars>>

CallDel(t, k) ==
    /\ Alive /\ tpc[t] = "idle"
    /\ tpc' = [tpc EXCEPT ![t] = "del_lock"]
    /\ targ' = [targ EXCEPT ![t] = [key |-> k, value |-> <<>>]]
    /\ UNCHANGED <<data, mutex, tres, lin, dispVars, snapVars, loadVars, netVars, parseVars, srvVars>>

DelLock(t) ==
    /\ Alive /\ tpc[t] = "del_lock"
    /\ CanLock(mutex, del_lock)
    /\ mutex' = Locked(mutex, del_lock, t)
    /\ lin' = MapErase(lin, targ[t].key).data
    /\ tpc' = [tpc EXCEPT ![t] = "del_erase"]
    /\ UNCHANGED <<data, targ, tres, dispVars, snapVars, loadVars, netVars, parseVars, srvVars>>

DelErase(t) ==
    /\ Alive /\ tpc[t] = "del_erase"
    /\ LET e == MapErase(data, targ[t].key)
       IN  /\ data' = e.data
           /\ tres' = [tres EXCEPT ![t] = [deleted |-> e.count > 0]]
    /\ tpc' = [tpc EXCEPT ![t] = "del_ret"]
    /\ UNCHANGED <<mutex, targ, lin, dispVars, snapVars, loadVars, netVars, parseVars, srvVars>>

DelReturn(t) ==
    /\ Alive /\ tpc[t] = "del_ret"
    /\ mutex' = Unlocked(mutex, t)
    /\ tpc' = [tpc EXCEPT ![t] = "idle"]
    /\ targ' = [targ EXCEPT ![t] = NoArg]
    /\ tres' = [tres EXCEPT ![t] = NoResult]
    /\ UNCHANGED <<data, lin, dispVars, snapVars, loadVars, netVars, parseVars, srvVars>>

-----------------------------------------------------------------------------
(* Bytes as numbers: the lengths of the snapshot file                      *)

\* the characters of values 32..95 and 97..126
Printable ==
    <<" ", "!", "\"", "#", "$", "%", "&", "'", "(", ")", "*", "+", ",", "-", ".", "/",
      "0", "1", "2", "3", "4", "5", "6", "7", "8", "9", ":", ";", "<", "=", ">", "?",
      "@", "A", "B", "C", "D", "E", "F", "G", "H", "I", "J", "K", "L", "M", "N", "O",
      "P", "Q", "R", "S", "T", "U", "V", "W", "X", "Y", "Z", "[", "\\", "]", "^", "_",
      "a", "b", "c", "d", "e", "f", "g", "h", "i", "j", "k", "l", "m", "n", "o",
      "p", "q", "r", "s", "t", "u", "v", "w", "x", "y", "z", "{", "|", "}", "~">>

\* the byte of value n in 0..255: its ASCII character, or a name made of
\* a backslash and the value
Chr(n) ==
    IF n >= 32 /\ n <= 95 THEN Printable[n - 31]
    ELSE IF n >= 97 /\ n <= 126 THEN Printable[n - 32]
    ELSE IF n = 13 THEN "\r"
    ELSE IF n = 10 THEN "\n"
    ELSE "\\" \o ToString(n)

\* the value of a byte
Code(c) == CHOOSE n \in 0..255 : Chr(n) = c

NUL == Chr(0)

\* sizeof(size_t)
WordSize == 8

\* the bytes of a size_t below 2^31 in memory, low byte first
SizeBytes(n) ==
    <<Chr(n % 256), Chr((n \div 256) % 256), Chr((n \div 65536) % 256),
      Chr(n \div 16777216)>> \o [i \in 1..(WordSize - 4) |-> NUL]

-----------------------------------------------------------------------------
(* KVStore::persistToDisk and the thread of main that calls it             *)

\* the four writes of one record
RecordFields(key, value) == <<SizeBytes(Len(key)), key, SizeBytes(Len(value)), value>>

RECURSIVE Flatten(_)
Flatten(ss) == IF Len(ss) = 0 THEN <<>> ELSE ss[1] \o Flatten(Tail(ss))

\* std::ofstream outFile(filename, binary | trunc) opens the file
PersistOpen ==
    /\ spc = "open"
    /\ file' = [exists |-> TRUE, bytes |-> <<>>]
    /\ outBad' = FALSE
    /\ spc' = "lock"
    /\ UNCHANGED <<data, todo, snapAt, diskFaults, dispVars, lockVars, loadVars, netVars, parseVars, srvVars>>

\* the open fails: throw std::runtime_error
PersistOpenFails ==
    /\ spc = "open"
    /\ spc' = "threw"
    /\ UNCHANGED <<data, todo, snapAt, file, outBad, diskFaults, dispVars, lockVars, loadVars, netVars, parseVars, srvVars>>

PersistLock ==
    /\ spc = "lock"
    /\ CanLock(mutex, persist_lock)
    /\ mutex' = Locked(mutex, persist_lock, SnapThread)
    /\ todo' = DOMAIN data
    /\ snapAt' = data
    /\ spc' = "loop"
    /\ UNCHANGED <<data, file, outBad, diskFaults, dispVars, tpc, targ, tres, lin, loadVars, netVars, parseVars, srvVars>>

\* One iteration of the loop over data, in the map's order: four writes,
\* none of them checked.  A write to a stream whose badbit is set does
\* nothing; a write that fails sets the badbit.  n of the writes succeed.
PersistWrite(key, n) ==
    /\ spc = "loop"
    /\ key \in todo \cap DOMAIN data
    /\ n \in (IF outBad THEN {0} ELSE IF diskFaults THEN 0..4 ELSE {4})
    /\ file' = [file EXCEPT !.bytes =
                   @ \o Flatten(SubSeq(RecordFields(key, data[key]), 1, n))]
    /\ outBad' = (outBad \/ n < 4)
    /\ todo' = todo \ {key}
    /\ UNCHANGED <<data, spc, snapAt, diskFaults, dispVars, lockVars, loadVars, netVars, parseVars, srvVars>>

\* the loop is over: the lock is released, the file closed, and
\* persistToDisk returns; its caller sleeps
PersistReturn ==
    /\ spc = "loop"
    /\ todo \cap DOMAIN data = {}
    /\ mutex' = Unlocked(mutex, SnapThread)
    /\ spc' = "sleep"
    /\ UNCHANGED <<data, todo, snapAt, file, outBad, diskFaults, dispVars,
                   tpc, targ, tres, lin, loadVars, netVars, parseVars, srvVars>>

\* main's thread t1: sleep_for is over, the loop calls persistToDisk again
SnapWake ==
    /\ spc = "sleep"
    /\ spc' = "open"
    /\ UNCHANGED <<data, todo, snapAt, file, outBad, diskFaults, dispVars, lockVars, loadVars, netVars, parseVars, srvVars>>

\* main's thread t1 has no handler: the exception ends the process
Terminate ==
    /\ spc = "threw"
    /\ spc' = "terminated"
    /\ UNCHANGED <<data, todo, snapAt, file, outBad, diskFaults, dispVars, lockVars, loadVars, netVars, parseVars, srvVars>>

-----------------------------------------------------------------------------
(* KVStore::KVStore and loadFromDisk                                       *)

\* allocations of more bytes than this fail (std::bad_alloc, or
\* std::length_error above max_size())
MaxAlloc == 1000000

\* a size_t of 2^31 or more
HugeSize == 2147483647

\* the value of the size_t in these eight bytes of memory
SizeVal(mem) ==
    IF mem[4] >= 128 \/ \E i \in 5..WordSize : mem[i] # 0 THEN HugeSize
    ELSE mem[1] + 256 * mem[2] + 65536 * mem[3] + 16777216 * mem[4]

\* What "size_t size;" may hold before anything is stored in it: zero, a
\* small number, an address of the stack.
Uninitialized ==
    {<<0, 0, 0, 0, 0, 0, 0, 0>>,
     <<5, 0, 0, 0, 0, 0, 0, 0>>,
     <<240, 222, 188, 154, 253, 127, 0, 0>>}

\* inFile.read(s, n): nothing when the failbit is set; otherwise the n next
\* bytes, or those left and the failbit
StreamRead(bytes, pos, fail, n) ==
    IF fail THEN [got |-> <<>>, pos |-> pos, fail |-> TRUE]
    ELSE LET k == IF n <= Len(bytes) - pos THEN n ELSE Len(bytes) - pos
         IN  [got |-> SubSeq(bytes, pos + 1, pos + k), pos |-> pos + k, fail |-> k < n]

\* the bytes got stored at reinterpret_cast<char*>(&size)
StoreSize(mem, got) ==
    [i \in 1..WordSize |-> IF i <= Len(got) THEN Code(got[i]) ELSE mem[i]]

\* std::string(n, '\0') with the bytes got read into it
Filled(n, got) == got \o [i \in 1..(n - Len(got)) |-> NUL]

\* The loop of loadFromDisk from its test to the end of its body, on the
\* state st = [pc, size, pos, fail, data] of the load.
LoadIteration(st, bytes) ==
    LET r1 == StreamRead(bytes, st.pos, st.fail, IF SizeVal(st.size) > 0 THEN 1 ELSE 0)
        s1 == StoreSize(st.size, r1.got)
        n1 == SizeVal(s1)
        r2 == StreamRead(bytes, r1.pos, r1.fail, n1)
        r3 == StreamRead(bytes, r2.pos, r2.fail, n1)
        s2 == StoreSize(s1, r3.got)
        n2 == SizeVal(s2)
        r4 == StreamRead(bytes, r3.pos, r3.fail, n2)
    IN  IF r1.fail
        THEN [st EXCEPT !.pc = "done", !.size = s1, !.pos = r1.pos, !.fail = TRUE]
        ELSE IF n1 > MaxAlloc                      \* std::string key(size, '\0')
        THEN [st EXCEPT !.pc = "threw", !.size = s1, !.pos = r1.pos]
        ELSE IF Len(r3.got) > WordSize             \* read(&size, size) past the variable
        THEN [st EXCEPT !.pc = "undefined", !.size = s1, !.pos = r3.pos, !.fail = r3.fail]
        ELSE IF n2 > MaxAlloc                      \* std::string value(size, '\0')
        THEN [st EXCEPT !.pc = "threw", !.size = s2, !.pos = r3.pos, !.fail = r3.fail]
        ELSE [pc   |-> "loop",
              size |-> s2,
              pos  |-> r4.pos,
              fail |-> r4.fail,
              data |-> MapAssign(st.data, Filled(n1, r2.got), Filled(n2, r4.got))]

LoadState == [pc |-> lpc, size |-> lsize, pos |-> lpos, fail |-> lfail, data |-> loaded]

\* KVStore(): the file cannot be opened and the keyspace is empty, or
\* loadFromDisk clears the map and enters its loop with size unset
Construct(garbage) ==
    /\ lpc = "none"
    /\ spc \in {"open", "sleep", "threw"}
    /\ loaded' = EmptyMap
    /\ lpos' = 0
    /\ lfail' = FALSE
    /\ IF file.exists
       THEN lpc' = "loop" /\ lsize' = garbage
       ELSE lpc' = "done" /\ UNCHANGED lsize
    /\ UNCHANGED <<data, dispVars, lockVars, snapVars, netVars, parseVars, srvVars>>

\* One turn of the loop.  A turn that leaves the load as it found it is
\* followed by the same turn for ever: the load is then "spin".
LoadTurn ==
    /\ lpc = "loop"
    /\ LET st == LoadIteration(LoadState, file.bytes)
       IN  /\ lpc' = IF st = LoadState THEN "spin" ELSE st.pc
           /\ lsize' = st.size
           /\ lpos' = st.pos
           /\ lfail' = st.fail
           /\ loaded' = st.data
    /\ UNCHANGED <<data, dispVars, lockVars, snapVars, netVars, parseVars, srvVars>>

-----------------------------------------------------------------------------
(* Worker: handleClient and the accept branch of eventLoop, for one worker *)

BUFFER_SIZE == 1024

NumConns == 1
Conns == 1..NumConns

\* the writes of all clients together
MaxWrites == 2

\* a value that makes its SET frame longer than the buffer
LongLen == 1000
LongValue == [i \in 1..LongLen |-> "x"]

NetKey    == <<"a">>
NetValues == {<<"a">>, LongValue}
SetFrame(v) == ArrayHeader(3) \o BulkFrame(SET) \o BulkFrame(NetKey) \o BulkFrame(v)
GetFrame    == ArrayHeader(2) \o BulkFrame(GET) \o BulkFrame(NetKey)

Malformed ==
    {
     <<"*", "1", "\r", "\n">>,  \* an array whose element is missing: empty input at the cursor
     <<"%", "2", "\r", "\n">>,  \* an unknown prefix byte
     <<"+", "O", "K">>,  \* no CRLF
     <<":", "x", "\r", "\n">>,  \* an integer that is no decimal
     <<"$", "x", "\r", "\n">>,  \* a length that is no decimal
     <<"$", "5", "\r", "\n", "a", "b", "\r", "\n">>,  \* a bulk body longer than the buffer
     <<"$", "1", "\r", "\n", "a", "b", "c">>,  \* a wrong bulk terminator
     <<"$", "-", "6", "\r", "\n">>  \* a negative length that sends the terminator test out of bounds
    }

NetRequests == {SetFrame(v) : v \in NetValues} \cup {GetFrame} \cup Malformed

\* the first client sends any of them, the clients beside it the short
\* well-formed commands
ClientRequests(c) == IF c = 1 THEN NetRequests ELSE {SetFrame(<<"a">>), GetFrame}

\* read(client_fd, buffer, sizeof(buffer)): -1 on a reset connection, the
\* bytes there are, 0 at the end of the stream, -1 and EAGAIN otherwise
ReadOutcome(c) ==
    IF peer[c] = "reset" THEN "error"
    ELSE IF inbuf[c] # <<>> THEN "data"
    ELSE IF peer[c] = "closed" THEN "eof"
    ELSE "again"

ReadSizeMutant(avail) == avail

\* how many of the avail bytes there are read(..., sizeof(buffer)) returns
ReadSize(avail) == IF avail < BUFFER_SIZE THEN avail ELSE BUFFER_SIZE

ReadClosesMutant(rd) == rd \in {"eof", "error", "again"}

\* bytes_read <= 0 and (bytes_read == 0 or errno is not EAGAIN)
ReadCloses(rd) == rd \in {"eof", "error"}

\* send(client_fd, ...): all of the reply, its first n bytes, -1 and EAGAIN,
\* or -1 and another error when the client is gone
SendOutcomes(c, reply) ==
    CASE peer[c] = "up" ->
            {[kind |-> "all", n |-> Len(reply)], [kind |-> "again", n |-> 0]}
            \cup {[kind |-> "partial", n |-> 1] : x \in {y \in {1} : Len(reply) > 1}}
      [] peer[c] = "closed" -> {[kind |-> "all", n |-> Len(reply)], [kind |-> "error", n |-> 0]}
      [] peer[c] = "reset" -> {[kind |-> "error", n |-> 0]}

SendClosesMutant(sr) == sr.kind \in {"error", "again"}

\* bytes_sent == -1 and errno is not EAGAIN
SendCloses(sr) == sr.kind = "error"

SentMutant(reply, n) == reply

\* the bytes send took from response.data(): the first bytes_sent of them
Sent(reply, n) == SubSeq(reply, 1, n)

NoCall == [conn |-> 0, read |-> "none", request |-> <<>>, reply |-> <<>>,
           before |-> EmptyMap, send |-> "none", sent |-> 0]


\* a client connects: the connection waits to be accepted (the clients
\* act while the process lives: its sockets are gone with it)
Connect(c) ==
    /\ wpc = "running"
    /\ cstate[c] = "none"
    /\ \A b \in 1..(c - 1) : cstate[b] # "none"     \* descriptors in order
    /\ cstate' = [cstate EXCEPT ![c] = "pending"]
    /\ UNCHANGED <<data, wpc, peer, inbuf, ready, writes, last,
                   dispVars, lockVars, snapVars, loadVars, parseVars>>

\* a client writes a request
ClientSend(c, req) ==
    /\ wpc = "running"
    /\ cstate[c] \in {"pending", "open"}
    /\ peer[c] = "up"
    /\ writes < MaxWrites
    /\ inbuf' = [inbuf EXCEPT ![c] = @ \o req]
    /\ writes' = writes + 1
    /\ ready' = [ready EXCEPT ![c] = cstate[c] = "open"]
    /\ UNCHANGED <<data, wpc, cstate, peer, last,
                   dispVars, lockVars, snapVars, loadVars, parseVars, srvVars>>

\* a client closes its end, in order or by a reset
ClientClose(c, how) ==
    /\ wpc = "running"
    /\ cstate[c] \in {"pending", "open"}
    /\ peer[c] = "up"
    /\ peer' = [peer EXCEPT ![c] = how]
    /\ ready' = [ready EXCEPT ![c] = cstate[c] = "open"]
    /\ UNCHANGED <<data, wpc, cstate, inbuf, writes, last,
                   dispVars, lockVars, snapVars, loadVars, parseVars, srvVars>>

\* the accept loop: every waiting connection is accepted and registered for
\* EPOLLIN | EPOLLET
Accept ==
    /\ wpc = "running"
    /\ \E c \in Conns : cstate[c] = "pending"
    /\ cstate' = [c \in Conns |-> IF cstate[c] = "pending" THEN "open" ELSE cstate[c]]
    /\ ready' = [c \in Conns |->
                    IF cstate[c] = "pending" THEN inbuf[c] # <<>> \/ peer[c] # "up"
                    ELSE ready[c]]
    /\ UNCHANGED <<data, wpc, peer, inbuf, writes, last,
                   dispVars, lockVars, snapVars, loadVars, parseVars, srvVars>>

\* accept fails with an error other than EAGAIN: std::system_error leaves
\* the thread
AcceptThrows ==
    /\ wpc = "running"
    /\ \E c \in Conns : cstate[c] = "pending"
    /\ wpc' = "terminated"
    /\ UNCHANGED <<data, cstate, peer, inbuf, ready, writes, last,
                   dispVars, lockVars, snapVars, loadVars, parseVars, srvVars>>

\* handleClient(client_fd) on the event of connection c
handleClient(c) ==
    /\ wpc = "running"
    /\ cstate[c] = "open"
    /\ ready[c]
    /\ ready' = [ready EXCEPT ![c] = FALSE]
    /\ LET rd == ReadOutcome(c)
           n  == ReadSize(Len(inbuf[c]))
           buffer == SubSeq(inbuf[c], 1, n)
       IN  IF rd = "data"
           THEN /\ inbuf' = [inbuf EXCEPT ![c] = SubSeq(@, n + 1, Len(@))]
                /\ \E out \in handle_request(data, buffer) :
                   \E sr \in SendOutcomes(c, out.reply) :
                      /\ data' = out.data
                      /\ cstate' = IF SendCloses(sr) THEN [cstate EXCEPT ![c] = "closed"]
                                   ELSE cstate
                      /\ last' = [conn |-> c, read |-> rd, request |-> buffer,
                                  reply |-> out.reply, before |-> data,
                                  send |-> sr.kind, sent |-> sr.n]
           ELSE /\ cstate' = IF ReadCloses(rd) THEN [cstate EXCEPT ![c] = "closed"]
                             ELSE cstate
                /\ last' = [NoCall EXCEPT !.conn = c, !.read = rd, !.before = data]
                /\ UNCHANGED <<data, inbuf>>
    /\ UNCHANGED <<wpc, peer, writes, dispVars, lockVars, snapVars, loadVars, parseVars>>

\* handleClient seen from the client's end: what send took goes onto the
\* connection, after what earlier calls put there
SendReply(c) ==
    /\ handleClient(c)
    /\ wire' = [wire EXCEPT ![c] = IF last'.read = "data"
                                   THEN @ \o Sent(last'.reply, last'.sent)
                                   ELSE @]
    /\ UNCHANGED <<mpc, mi, srun, wrun, wth, wopen, lsn, owner, edge, werr, arrived, calls>>

\* the out-of-bounds read of the request faults and the process dies
WorkerFaults(c) ==
    /\ wpc = "running"
    /\ cstate[c] = "open"
    /\ ready[c]
    /\ ReadOutcome(c) = "data"
    /\ parse(SubSeq(inbuf[c], 1, ReadSize(Len(inbuf[c]))), 0).kind = "ub"
    /\ wpc' = "crashed"
    /\ UNCHANGED <<data, cstate, peer, inbuf, ready, writes, last,
                   dispVars, lockVars, snapVars, loadVars, parseVars, srvVars>>

-----------------------------------------------------------------------------
(* AsyncServer: its workers, each with its own listening socket, epoll     *)
(* instance and thread; start, stop and destruction by the main thread     *)

\* the server is followed with one client connection (several connections
\* of one worker are followed in SpecWorker), and what its client writes
ServerConns == {c \in Conns : c = 1}
ServerRequests == {SetFrame(<<"a">>), GetFrame}

RegisteredMutant(w, c) == cstate[c] = "open"

\* connection c is in the epoll instance of worker w: it was accepted from
\* w's server_fd_ and added to w's epoll_fd_
Registered(w, c) == cstate[c] = "open" /\ owner[c] = w

\* the connections waiting on the listening socket of worker w
Backlog(w) == {c \in Conns : cstate[c] = "pending" /\ owner[c] = w}

\* a client connects; the kernel gives the connection to the listening
\* socket of one worker (SO_REUSEPORT)
ServerConnect(w, c) ==
    /\ wopen[w]
    /\ Connect(c)
    /\ owner' = [owner EXCEPT ![c] = w]
    /\ UNCHANGED <<mpc, mi, srun, wrun, wth, wopen, lsn, edge, werr, arrived, calls, wire>>

\* a client writes a request: the bytes arrive and, on a registered
\* connection, an event enters the ready list
Arrive(c, req) ==
    /\ wpc = "running"
    /\ cstate[c] \in {"pending", "open"}
    /\ peer[c] = "up"
    /\ writes < MaxWrites
    /\ inbuf' = [inbuf EXCEPT ![c] = @ \o req]
    /\ arrived' = [arrived EXCEPT ![c] = @ \o req]
    /\ writes' = writes + 1
    /\ edge' = [edge EXCEPT ![c] = @ \/ cstate[c] = "open"]
    /\ UNCHANGED <<data, wpc, cstate, peer, ready, last, dispVars, lockVars, snapVars,
                   loadVars, parseVars,
                   mpc, mi, srun, wrun, wth, wopen, lsn, owner, werr, calls, wire>>

\* a client closes its end, in order or by a reset
Depart(c, how) ==
    /\ wpc = "running"
    /\ cstate[c] \in {"pending", "open"}
    /\ peer[c] = "up"
    /\ peer' = [peer EXCEPT ![c] = how]
    /\ edge' = [edge EXCEPT ![c] = @ \/ cstate[c] = "open"]
    /\ UNCHANGED <<data, wpc, cstate, inbuf, ready, writes, last, dispVars, lockVars,
                   snapVars, loadVars, parseVars,
                   mpc, mi, srun, wrun, wth, wopen, lsn, owner, werr, arrived, calls, wire>>

netFrame == <<data, wpc, cstate, peer, inbuf, ready, writes, last,
              dispVars, lockVars, snapVars, loadVars, parseVars>>

\* AsyncServer::start, up to its loop
ServerStart ==
    /\ wpc = "running"
    /\ mpc = "constructed"
    /\ ~srun
    /\ srun' = TRUE
    /\ mpc' = "starting"
    /\ mi' = 1
    /\ UNCHANGED <<netFrame, wrun, wth, wopen, lsn, owner, edge, werr, arrived, calls, wire>>

\* Worker::start of the next worker; start returns after the last
WorkerStart ==
    /\ wpc = "running"
    /\ mpc = "starting"
    /\ ~wrun[mi]
    /\ wrun' = [wrun EXCEPT ![mi] = TRUE]
    /\ wth' = [wth EXCEPT ![mi] = "wait"]
    /\ IF mi = NumWorkers THEN mpc' = "serving" /\ mi' = 0
       ELSE mi' = mi + 1 /\ UNCHANGED mpc
    /\ UNCHANGED <<netFrame, srun, wopen, lsn, owner, edge, werr, arrived, calls, wire>>

\* while (running_) is false: the thread leaves eventLoop
WorkerLeave(w) ==
    /\ wpc = "running"
    /\ wth[w] = "wait"
    /\ ~wrun[w]
    /\ wth' = [wth EXCEPT ![w] = "left"]
    /\ UNCHANGED <<netFrame, mpc, mi, srun, wrun, wopen, lsn, owner, edge, werr,
                   arrived, calls, wire>>

\* epoll_wait returns the events of the ready list: that of server_fd_
\* while connections wait on it, and those of the registered connections
WorkerPoll(w) ==
    /\ wpc = "running"
    /\ wth[w] = "wait"
    /\ wrun[w]
    /\ Backlog(w) # {} \/ \E c \in Conns : Registered(w, c) /\ edge[c]
    /\ lsn' = [lsn EXCEPT ![w] = Backlog(w) # {}]
    /\ ready' = [c \in Conns |-> ready[c] \/ (Registered(w, c) /\ edge[c])]
    /\ edge' = [c \in Conns |-> edge[c] /\ ~Registered(w, c)]
    /\ wth' = [wth EXCEPT ![w] = "dispatch"]
    /\ UNCHANGED <<data, wpc, cstate, peer, inbuf, writes, last, dispVars, lockVars,
                   snapVars, loadVars, parseVars,
                   mpc, mi, srun, wrun, wopen, owner, werr, arrived, calls, wire>>

\* epoll_wait fails with an error other than EINTR: break
WorkerPollFails(w) ==
    /\ wpc = "running"
    /\ wth[w] = "wait"
    /\ wrun[w]
    /\ wth' = [wth EXCEPT ![w] = "left"]
    /\ werr' = [werr EXCEPT ![w] = "epoll_wait"]
    /\ UNCHANGED <<netFrame, mpc, mi, srun, wrun, wopen, lsn, owner, edge, arrived, calls, wire>>

\* the event of server_fd_: every waiting connection is accepted and
\* added to the worker's epoll instance for EPOLLIN | EPOLLET
WorkerAccept(w) ==
    /\ wpc = "running"
    /\ wth[w] = "dispatch"
    /\ lsn[w]
    /\ lsn' = [lsn EXCEPT ![w] = FALSE]
    /\ cstate' = [c \in Conns |-> IF c \in Backlog(w) THEN "open" ELSE cstate[c]]
    /\ edge' = [c \in Conns |->
                   IF c \in Backlog(w) THEN inbuf[c] # <<>> \/ peer[c] # "up" ELSE edge[c]]
    /\ UNCHANGED <<data, wpc, peer, inbuf, ready, writes, last, dispVars, lockVars,
                   snapVars, loadVars, parseVars,
                   mpc, mi, srun, wrun, wth, wopen, owner, werr, arrived, calls, wire>>

\* accept fails with an error other than EAGAIN: std::system_error is
\* thrown in the worker's thread, where nothing catches it, and
\* std::terminate ends the process
WorkerAcceptThrows(w) ==
    /\ wpc = "running"
    /\ wth[w] = "dispatch"
    /\ lsn[w]
    /\ werr' = [werr EXCEPT ![w] = "accept"]
    /\ wpc' = "terminated"
    /\ UNCHANGED <<data, cstate, peer, inbuf, ready, writes, last, dispVars, lockVars,
                   snapVars, loadVars, parseVars,
                   mpc, mi, srun, wrun, wth, wopen, lsn, owner, edge, arrived, calls, wire>>

\* the event of a connection: handleClient on the worker's thread
WorkerHandle(w, c) ==
    /\ wth[w] = "dispatch"
    /\ Registered(w, c)
    /\ handleClient(c)
    /\ calls' = IF last'.read = "data"
                THEN [calls EXCEPT ![c] = Append(@, [by |-> w, request |-> last'.request,
                                                     before |-> last'.before,
                                                     reply |-> last'.reply])]
                ELSE calls
    /\ UNCHANGED <<mpc, mi, srun, wrun, wth, wopen, lsn, owner, edge, werr, arrived, wire>>

\* the events epoll_wait returned are dispatched: back to while (running_)
WorkerLoop(w) ==
    /\ wpc = "running"
    /\ wth[w] = "dispatch"
    /\ ~lsn[w]
    /\ \A c \in Conns : ~(Registered(w, c) /\ ready[c])
    /\ wth' = [wth EXCEPT ![w] = "wait"]
    /\ UNCHANGED <<netFrame, mpc, mi, srun, wrun, wopen, lsn, owner, edge, werr,
                   arrived, calls, wire>>

\* AsyncServer::stop, up to its loop
ServerStop ==
    /\ wpc = "running"
    /\ mpc = "serving"
    /\ srun
    /\ srun' = FALSE
    /\ mpc' = "stopping"
    /\ mi' = 1
    /\ UNCHANGED <<netFrame, wrun, wth, wopen, lsn, owner, edge, werr, arrived, calls, wire>>

\* Worker::stop of the next worker, up to the join
WorkerStop ==
    /\ wpc = "running"
    /\ mpc = "stopping"
    /\ wrun[mi]
    /\ wrun' = [wrun EXCEPT ![mi] = FALSE]
    /\ UNCHANGED <<netFrame, mpc, mi, srun, wth, wopen, lsn, owner, edge, werr,
                   arrived, calls, wire>>

\* thread_.join() returns once the thread has left eventLoop; stop returns
\* after the last worker
WorkerJoin ==
    /\ wpc = "running"
    /\ mpc = "stopping"
    /\ ~wrun[mi]
    /\ wth[mi] = "left"
    /\ wth' = [wth EXCEPT ![mi] = "joined"]
    /\ IF mi = NumWorkers THEN mpc' = "stopped" /\ mi' = 0
       ELSE mi' = mi + 1 /\ UNCHANGED mpc
    /\ UNCHANGED <<netFrame, srun, wrun, wopen, lsn, owner, edge, werr, arrived, calls, wire>>

\* ~AsyncServer: stop() returns at once, then ~Worker of every worker:
\* stop() returns at once, epoll_fd_ and server_fd_ are closed.  The
\* connections still waiting on server_fd_ go with it.
ServerDestroy ==
    /\ wpc = "running"
    /\ mpc = "stopped"
    /\ mpc' = "destroyed"
    /\ wopen' = [w \in Workers |-> FALSE]
    /\ cstate' = [c \in Conns |-> IF cstate[c] = "pending" THEN "closed" ELSE cstate[c]]
    /\ UNCHANGED <<data, wpc, peer, inbuf, ready, writes, last, dispVars, lockVars,
                   snapVars, loadVars, parseVars,
                   mi, srun, wrun, wth, lsn, owner, edge, werr, arrived, calls, wire>>

-----------------------------------------------------------------------------
(* A caller of RESPParser::parse: frames concatenated into one buffer are  *)
(* parsed one after the other from cursor 0                                *)

\* frames as a client encodes them, each with the value it stands for
StrValue(t, s) == [RESPValue(t) EXCEPT !.strValue = s]
FSimple(s) == [bytes |-> <<"+">> \o s \o CRLF, value |-> StrValue("SimpleString", s)]
FError(s)  == [bytes |-> <<"-">> \o s \o CRLF, value |-> StrValue("Error", s)]
FInteger(n) ==
    [bytes |-> <<":">> \o (IF n < 0 THEN <<"-">> \o to_string(0 - n) ELSE to_string(n)) \o CRLF,
     value |-> [RESPValue("Integer") EXCEPT !.intValue = n]]
FBulk(s)   == [bytes |-> BulkFrame(s), value |-> StrValue("BulkString", s)]
FNullBulk  == [bytes |-> <<"$", "-", "1", "\r", "\n">>, value |-> RESPValue("Null")]
FNullArray == [bytes |-> <<"*", "-", "1", "\r", "\n">>, value |-> RESPValue("Null")]

RECURSIVE ConcatBytes(_)
ConcatBytes(fs) == IF fs = <<>> THEN <<>> ELSE Head(fs).bytes \o ConcatBytes(Tail(fs))

FArray(fs) ==
    [bytes |-> ArrayHeader(Len(fs)) \o ConcatBytes(fs),
     value |-> [RESPValue("Array") EXCEPT !.arrayValue = [i \in 1..Len(fs) |-> fs[i].value]]]

LeafFrames ==
    {FSimple(<<"O", "K">>), FSimple(<<>>), FSimple(<<"a", "\r", "b">>),
     FError(<<"E", "R", "R", " ", "x">>),
     FInteger(0), FInteger(-12), FInteger(1024),
     FBulk(<<>>), FBulk(<<"a">>), FBulk(CRLF), FBulk(<<"$", "1", "\r", "\n", "+">>),
     FNullBulk, FNullArray}

\* arrays of a few of the leaves, and arrays holding such arrays
InnerFrames == {FBulk(<<"a">>), FInteger(-12), FNullBulk, FSimple(<<"O", "K">>)}
FlatArrays ==
    {FArray(<<>>)} \cup {FArray(<<f>>) : f \in InnerFrames}
    \cup {FArray(<<f, g>>) : f \in InnerFrames, g \in {FBulk(<<"a">>), FNullArray}}
NestedArrays ==
    {FArray(<<a>>) : a \in FlatArrays}
    \cup {FArray(<<FBulk(<<"a">>), a>>) : a \in {FArray(<<>>), FArray(<<FNullBulk>>)}}
    \cup {FArray(<<FArray(<<FArray(<<>>)>>), FInteger(0)>>)}

Frames == LeafFrames \cup FlatArrays \cup NestedArrays

\* how many frames a buffer holds at most
MaxFrames == 2

FrameSeqs == UNION {[1..n -> Frames] : n \in 0..MaxFrames}

\* the byte strings given to createRESPResponse
MaxBulkLen == 3
BulkBytes == {"a", "\r", "\n", "$", "*"}
BulkStrings ==
    UNION {[1..n -> BulkBytes] : n \in 0..MaxBulkLen}
    \cup {[i \in 1..10 |-> "a"], [i \in 1..12 |-> IF i % 2 = 1 THEN "\r" ELSE "\n"]}

\* the sources of a buffer: frames of a client, or a reply of the encoder
Sources ==
    {[kind |-> "frames", frames |-> fs, bytes |-> ConcatBytes(fs)] : fs \in FrameSeqs}
    \cup {[kind |-> "encoded", frames |-> <<FBulk(v)>>, bytes |-> createRESPResponse(v)] :
            v \in BulkStrings}

\* size_t pos = ...; parse(input, pos) while bytes are left
ParseNext ==
    /\ ppc = "more"
    /\ ppos < Len(pbuf)
    /\ LET r == parse(pbuf, ppos)
       IN  CASE r.kind = "value" ->
                  /\ pgot' = Append(pgot, r.val)
                  /\ ppos' = r.pos
                  /\ UNCHANGED ppc
             [] r.kind = "throw" ->
                  /\ ppc' = "threw"
                  /\ UNCHANGED <<pgot, ppos>>
             [] r.kind = "ub" ->
                  /\ ppc' = "undefined"
                  /\ UNCHANGED <<pgot, ppos>>
    /\ UNCHANGED <<data, psrc, pbuf, dispVars, lockVars, snapVars, loadVars, netVars, srvVars>>

\* the cursor is at the end of the buffer
ParseEnd ==
    /\ ppc = "more"
    /\ ppos >= Len(pbuf)
    /\ ppc' = "done"
    /\ UNCHANGED <<data, psrc, pbuf, ppos, pgot, dispVars, lockVars, snapVars, loadVars,
                   netVars, srvVars>>

-----------------------------------------------------------------------------
(* Initial states of the parts                                             *)

InitDisp ==
    /\ hpc = "idle"
    /\ request = <<>>
    /\ response = <<>>
    /\ before = EmptyMap
    /\ model = {}

InitLock ==
    /\ mutex = [shared |-> {}, exclusive |-> {}]
    /\ tpc = [t \in Workers |-> "idle"]
    /\ targ = [t \in Workers |-> NoArg]
    /\ tres = [t \in Workers |-> NoResult]
    /\ lin = EmptyMap

InitSnap ==
    /\ spc = "open"
    /\ todo = {}
    /\ snapAt = EmptyMap
    /\ file = [exists |-> FALSE, bytes |-> <<>>]
    /\ outBad = FALSE

InitLoad ==
    /\ lpc = "none"
    /\ lsize = <<0, 0, 0, 0, 0, 0, 0, 0>>
    /\ lpos = 0
    /\ lfail = FALSE
    /\ loaded = EmptyMap

InitServer ==
    /\ mpc = "constructed"
    /\ mi = 0
    /\ srun = FALSE
    /\ wrun = [w \in Workers |-> FALSE]
    /\ wth = [w \in Workers |-> "none"]
    /\ wopen = [w \in Workers |-> TRUE]
    /\ lsn = [w \in Workers |-> FALSE]
    /\ owner = [c \in Conns |-> 0]
    /\ edge = [c \in Conns |-> FALSE]
    /\ werr = [w \in Workers |-> "none"]
    /\ arrived = [c \in Conns |-> <<>>]
    /\ calls = [c \in Conns |-> <<>>]
    /\ wire = [c \in Conns |-> <<>>]

InitParse ==
    /\ psrc = [kind |-> "frames", frames |-> <<>>, bytes |-> <<>>]
    /\ pbuf = <<>>
    /\ ppos = 0
    /\ pgot = <<>>
    /\ ppc = "done"

InitNet ==
    /\ wpc = "running"
    /\ cstate = [c \in Conns |-> "none"]
    /\ peer = [c \in Conns |-> "up"]
    /\ inbuf = [c \in Conns |-> <<>>]
    /\ ready = [c \in Conns |-> FALSE]
    /\ writes = 0
    /\ last = NoCall

-----------------------------------------------------------------------------
(* The dispatcher alone: sequences of handle_request calls                 *)

InitDispatch ==
    /\ data = EmptyMap
    /\ InitDisp
    /\ InitLock
    /\ InitSnap
    /\ InitLoad
    /\ InitNet
    /\ InitServer
    /\ InitParse
    /\ diskFaults = FALSE

NextDispatch ==
    \/ \E req \in Requests : Call(req)
    \/ Return
    \/ HandlerFaults
    \/ Done

SpecDispatch == InitDispatch /\ [][NextDispatch]_vars

-----------------------------------------------------------------------------
(* The keyspace under the worker threads and the snapshot thread           *)

Init ==
    /\ data = EmptyMap
    /\ InitDisp
    /\ InitLock
    /\ InitSnap
    /\ InitLoad
    /\ InitNet
    /\ InitServer
    /\ InitParse
    /\ diskFaults = FALSE

Next ==
    \/ \E t \in Workers, k \in Keys : CallGet(t, k)
    \/ \E t \in Workers : GetLock(t)
    \/ \E t \in Workers : GetFind(t)
    \/ \E t \in Workers : GetReturn(t)
    \/ \E t \in Workers, k \in Keys, v \in ThreadValues : CallSet(t, k, v)
    \/ \E t \in Workers : SetLock(t)
    \/ \E t \in Workers : SetAssign(t)
    \/ \E t \in Workers : SetReturn(t)
    \/ \E t \in Workers, k \in Keys : CallDel(t, k)
    \/ \E t \in Workers : DelLock(t)
    \/ \E t \in Workers : DelErase(t)
    \/ \E t \in Workers : DelReturn(t)
    \/ PersistOpen
    \/ PersistOpenFails
    \/ PersistLock
    \/ \E k \in Keys, n \in 0..4 : PersistWrite(k, n)
    \/ PersistReturn
    \/ SnapWake
    \/ Terminate

Spec == Init /\ [][Next]_vars

-----------------------------------------------------------------------------
(* Snapshot and restore: a keyspace is written to the file by              *)
(* persistToDisk, with or without write failures, and a fresh keyspace is  *)
(* then constructed from the file                                          *)

SnapKeys   == {<<>>, <<"a">>, <<"a", "b">>}
SnapValues == {<<>>, <<"a">>, CRLF}

\* the keyspaces over these keys and values
SnapStates == UNION {[ks -> SnapValues] : ks \in SUBSET SnapKeys}

InitRestore ==
    /\ data \in SnapStates
    /\ InitDisp
    /\ InitLock
    /\ InitSnap
    /\ InitLoad
    /\ InitNet
    /\ InitServer
    /\ InitParse
    /\ diskFaults \in BOOLEAN

\* the old keyspace is gone once the fresh one is constructed
NextRestore ==
    \/ lpc = "none" /\ PersistOpen
    \/ lpc = "none" /\ PersistOpenFails
    \/ lpc = "none" /\ PersistLock
    \/ lpc = "none" /\ \E k \in SnapKeys, n \in 0..4 : PersistWrite(k, n)
    \/ lpc = "none" /\ PersistReturn
    \/ lpc = "none" /\ SnapWake
    \/ \E g \in Uninitialized : Construct(g)
    \/ LoadTurn

SpecRestore == InitRestore /\ [][NextRestore]_vars

-----------------------------------------------------------------------------
(* One worker serving its clients                                          *)

InitWorker ==
    /\ data = EmptyMap
    /\ InitDisp
    /\ InitLock
    /\ InitSnap
    /\ InitLoad
    /\ InitNet
    /\ InitServer
    /\ InitParse
    /\ diskFaults = FALSE

NextWorker ==
    \/ \E c \in Conns : Connect(c) /\ UNCHANGED srvVars
    \/ \E c \in Conns : \E req \in ClientRequests(c) : ClientSend(c, req)
    \/ \E c \in Conns, how \in {"closed", "reset"} : ClientClose(c, how)
    \/ Accept
    \/ AcceptThrows
    \/ \E c \in Conns : handleClient(c) /\ UNCHANGED srvVars
    \/ \E c \in Conns : WorkerFaults(c)

SpecWorker == InitWorker /\ [][NextWorker]_vars

-----------------------------------------------------------------------------
(* One worker and what its clients receive: well-formed commands, and on  *)
(* every connection the bytes the sends put there                          *)

DelFrame == ArrayHeader(2) \o BulkFrame(DEL) \o BulkFrame(NetKey)
ReplyRequests == {SetFrame(<<"a">>), GetFrame, DelFrame}

NextReplies ==
    \/ \E c \in Conns : Connect(c) /\ UNCHANGED srvVars
    \/ \E c \in Conns, req \in ReplyRequests : ClientSend(c, req)
    \/ \E c \in Conns, how \in {"closed", "reset"} : ClientClose(c, how)
    \/ Accept
    \/ AcceptThrows
    \/ \E c \in Conns : SendReply(c)

SpecReplies == InitWorker /\ [][NextReplies]_vars

-----------------------------------------------------------------------------
(* The parser alone, on every buffer of Sources                            *)

InitParser ==
    /\ data = EmptyMap
    /\ InitDisp
    /\ InitLock
    /\ InitSnap
    /\ InitLoad
    /\ InitNet
    /\ InitServer
    /\ diskFaults = FALSE
    /\ psrc \in Sources
    /\ pbuf = psrc.bytes
    /\ ppos = 0
    /\ pgot = <<>>
    /\ ppc = "more"

NextParser ==
    \/ ParseNext
    \/ ParseEnd

SpecParser == InitParser /\ [][NextParser]_vars

-----------------------------------------------------------------------------
(* The server from its construction to its destruction                     *)

InitAsyncServer ==
    /\ data = EmptyMap
    /\ InitDisp
    /\ InitLock
    /\ InitSnap
    /\ InitLoad
    /\ InitNet
    /\ InitServer
    /\ InitParse
    /\ diskFaults = FALSE

NextServer ==
    \/ \E w \in Workers, c \in ServerConns : ServerConnect(w, c)
    \/ \E c \in ServerConns, req \in ServerRequests : Arrive(c, req)
    \/ \E c \in ServerConns, how \in {"closed", "reset"} : Depart(c, how)
    \/ ServerStart
    \/ WorkerStart
    \/ \E w \in Workers : WorkerLeave(w)
    \/ \E w \in Workers : WorkerPoll(w)
    \/ \E w \in Workers : WorkerPollFails(w)
    \/ \E w \in Workers : WorkerAccept(w)
    \/ \E w \in Workers : WorkerAcceptThrows(w)
    \/ \E w \in Workers, c \in ServerConns : WorkerHandle(w, c)
    \/ \E w \in Workers : WorkerLoop(w)
    \/ ServerStop
    \/ WorkerStop
    \/ WorkerJoin
    \/ ServerDestroy

SpecServer == InitAsyncServer /\ [][NextServer]_vars

\* While stop runs, the main thread takes the steps of stop and the thread
\* it is about to join takes the step of eventLoop it is at: a readiness
\* wait returns within its timeout and a handler call returns.
StopStep == WorkerStop \/ WorkerJoin

JoinedThreadStep ==
    /\ mpc = "stopping"
    /\ \/ WorkerLeave(mi)
       \/ WorkerAccept(mi)
       \/ WorkerLoop(mi)

\* what every step WorkerHandle(w, c) does, whatever is read and replied:
\* the event of c is taken off the list epoll_wait returned
HandlerReturns(w, c) ==
    /\ wpc = "running"
    /\ wth[w] = "dispatch"
    /\ Registered(w, c)
    /\ ready[c]
    /\ ready' = [ready EXCEPT ![c] = FALSE]

JoinedThreadHandles == mpc = "stopping" /\ \E c \in ServerConns : HandlerReturns(mi, c)

FairServer ==
    /\ WF_vars(StopStep)
    /\ WF_vars(JoinedThreadStep)
    /\ WF_ready(JoinedThreadHandles)

SpecServerLive == SpecServer /\ FairServer

-----------------------------------------------------------------------------
(* Claims about the dispatcher                                             *)

InvalidCommandReply ==
    <<"-", "E", "R", "R", " ", "i", "n", "v", "a", "l", "i", "d", " ", "c", "o", "m", "m",
      "a", "n", "d", "\r", "\n">>
UnknownCommandReply ==
    <<"-", "E", "R", "R", " ", "u", "n", "k", "n", "o", "w", "n", " ", "c", "o", "m", "m",
      "a", "n", "d", "\r", "\n">>

\* C1: the replies to well-formed GET/SET/DEL requests, and the keyspace
\* they leave, are those of the reference map: SET binds and replies +OK,
\* GET replies the bound value or $-1 and changes nothing, DEL replies :1
\* iff the key was bound and unbinds it, and no other key is touched.
C1_RefinesReferenceMap ==
    /\ hpc = "idle" => Pairs(data) = model
    /\ hpc = "returned" =>
          \A c \in Commands :
              request = Frame(c) =>
                  /\ response = RefReply(model, c)
                  /\ Pairs(data) = RefApply(model, c)

\* C1 witness: a DEL of a bound key answered :1 while another key is bound
C1_Witness ==
    /\ hpc = "returned"
    /\ request = Frame([name |-> "DEL", key |-> <<"a">>])
    /\ response = <<":", "1", "\r", "\n">>
    /\ model = {<<(<<"a">>), CRLF>>, <<(<<>>), (<<"a">>)>>}
    /\ Pairs(data) = {<<(<<>>), (<<"a">>)>>}

\* the request parsed to an array whose first element is a string
ParsedCommand ==
    LET r == parse(request, 0)
    IN  /\ r.kind = "value"
        /\ r.val.type = "Array"
        /\ Len(r.val.arrayValue) > 0
        /\ r.val.arrayValue[1].type \in {"SimpleString", "BulkString"}

\* the request parsed to a command that is none of GET k, SET k v, DEL k
NotACommand ==
    LET a    == parse(request, 0).val.arrayValue
        name == a[1].strValue
    IN  \/ name \notin {GET, SET, DEL}
        \/ name \in {GET, DEL} /\ Len(a) # 2
        \/ name = SET /\ Len(a) # 3

\* C9: a parsed array whose first element is a string, and whose name is
\* not exactly GET, SET or DEL or whose element count is wrong for the
\* name, is answered -ERR unknown command and leaves the keyspace as it was.
C9_UnknownCommand ==
    (hpc = "returned" /\ ParsedCommand /\ NotACommand) =>
        /\ response = UnknownCommandReply
        /\ data = before

\* C9 witness: "get a" in lower case, answered on a keyspace that binds a
C9_Witness ==
    /\ hpc = "returned"
    /\ request = ArrayHeader(2) \o BulkFrame(<<"g", "e", "t">>) \o BulkFrame(<<"a">>)
    /\ response = UnknownCommandReply
    /\ <<"a">> \in DOMAIN data

\* the request parsed to a value that is no array of at least one element
\* starting with a string
NotAnArrayOfStrings ==
    LET r == parse(request, 0)
    IN  /\ r.kind = "value"
        /\ \/ r.val.type # "Array"
           \/ Len(r.val.arrayValue) = 0
           \/ r.val.arrayValue[1].type \notin {"SimpleString", "BulkString"}

\* C10: a request that parses to a value that is not an array, to an empty
\* array, or to an array whose first element is neither a simple nor a bulk
\* string is answered -ERR invalid command and leaves the keyspace as it was.
C10_InvalidCommand ==
    (hpc = "returned" /\ NotAnArrayOfStrings) =>
        /\ response = InvalidCommandReply
        /\ data = before

\* C10 witness: an array whose first element is an integer, answered on a
\* keyspace that is not empty
C10_Witness ==
    /\ hpc = "returned"
    /\ request = <<"*", "1", "\r", "\n", ":", "5", "\r", "\n">>
    /\ response = InvalidCommandReply
    /\ DOMAIN data # {}

-----------------------------------------------------------------------------
(* Claims about the keyspace under its threads                             *)

\* the threads inside the keyspace: between taking the lock and returning
Readers ==
    {t \in Workers : tpc[t] \in {"get_find", "get_ret"}}
        \cup (IF spc = "loop" THEN {SnapThread} ELSE {})
Writers ==
    {t \in Workers : tpc[t] \in {"set_assign", "set_ret", "del_erase", "del_ret"}}

\* C3: at any moment several readers (get, snapshot) or one writer (set,
\* del) are inside the keyspace, never a writer with a reader or with
\* another writer; and what a get returns is what the writes made of its
\* key, taken in the order in which they acquired the exclusive lock.
C3_ReadersOrOneWriter ==
    /\ Cardinality(Writers) <= 1
    /\ Writers # {} => Readers = {}
    /\ \A t \in Workers :
          tpc[t] = "get_ret" => tres[t] = MapFind(lin, targ[t].key)

\* C3 witness: two gets and the snapshot inside together, one get having
\* found the value a set wrote
C3_Witness ==
    /\ Readers = Workers \cup {SnapThread}
    /\ \E t \in Workers : tpc[t] = "get_ret" /\ tres[t] = Some(<<"a">>)

\* the value of the first four bytes of a length of the file
WordVal(bs) ==
    Code(bs[1]) + 256 * Code(bs[2]) + 65536 * Code(bs[3]) + 16777216 * Code(bs[4])

RECURSIVE FileRecords(_)
\* The (key, value) pairs of a file in the snapshot format: a length, that
\* many key bytes, a length, that many value bytes, repeated.
FileRecords(bs) ==
    IF Len(bs) < WordSize THEN {}
    ELSE LET kl   == WordVal(bs)
             vlAt == WordSize + kl
         IN  IF Len(bs) < vlAt + WordSize THEN {}
             ELSE LET vl  == WordVal(SubSeq(bs, vlAt + 1, vlAt + WordSize))
                      end == vlAt + WordSize + vl
                  IN  IF Len(bs) < end THEN {}
                      ELSE {<<SubSeq(bs, WordSize + 1, vlAt),
                              SubSeq(bs, vlAt + WordSize + 1, end)>>}
                               \cup FileRecords(SubSeq(bs, end + 1, Len(bs)))

\* C5: a snapshot taken while workers set and delete is point-in-time
\* consistent: while it iterates no writer is inside and the keyspace stays
\* what it was when the snapshot took the lock, the records written so far
\* are entries of that keyspace, and the finished file holds exactly its
\* entries; gets go on meanwhile.
C5_PointInTimeSnapshot ==
    /\ spc = "loop" =>
          /\ Writers = {}
          /\ data = snapAt
          /\ FileRecords(file.bytes) = {p \in Pairs(snapAt) : p[1] \notin todo}
    /\ spc = "sleep" => FileRecords(file.bytes) = Pairs(snapAt)

\* C5 witness: the snapshot has written one of two records, a get has
\* found a value meanwhile and a set waits for the lock
C5_Witness ==
    /\ spc = "loop"
    /\ Cardinality(todo) = 1
    /\ Cardinality(FileRecords(file.bytes)) = 1
    /\ \E t \in Workers : tpc[t] = "get_ret" /\ tres[t].has
    /\ \E t \in Workers : tpc[t] = "set_lock" /\ data # MapAssign(data, targ[t].key, targ[t].value)


-----------------------------------------------------------------------------
(* Claims about snapshot and restore                                       *)

\* the construction of the fresh keyspace is over: it returned, it threw,
\* it turns in the loop for ever, or it wrote past the variable size
Constructed == lpc \in {"done", "threw", "spin", "undefined"}

\* C4 as stated: after a snapshot that wrote every record, the keyspace
\* constructed from the file holds exactly the pairs of the keyspace that was
\* written.
C4_RoundTrip ==
    (spc = "sleep" /\ ~outBad /\ Constructed) =>
        /\ lpc = "done"
        /\ Pairs(loaded) = Pairs(data)

\* C6 as stated: a snapshot during which a write to the file failed does not
\* return normally to its caller.
C6_FailureSurfaces == spc = "sleep" => ~outBad

\* C7 as stated: the construction of a keyspace neither raises an error nor
\* loops for ever, whatever the file holds.
C7_ConstructTerminates == lpc \notin {"threw", "spin", "undefined"}


-----------------------------------------------------------------------------
(* Claims about the worker and its connections                             *)

\* what one read returns of a frame that is all the connection holds
FirstRead(frame) ==
    SubSeq(frame, 1, IF Len(frame) < BUFFER_SIZE THEN Len(frame) ELSE BUFFER_SIZE)

\* C2 as stated: a client that writes one well-formed SET frame, of a value of
\* any length, is sent +OK, and the keyspace then holds the whole value under
\* the key.
C2_SetOfAnyLength ==
    \A v \in NetValues :
        (last.read = "data" /\ last.request = FirstRead(SetFrame(v)) /\ last.send = "all") =>
            /\ last.reply = createOKResponse
            /\ MapFind(data, NetKey) = Some(v)

ParseFails(req) == parse(req, 0).kind = "throw"

\* a reply that begins with "-ERR " and ends with CRLF
IsErrReply(reply) ==
    /\ Len(reply) >= 7
    /\ SubSeq(reply, 1, 5) = <<"-", "E", "R", "R", " ">>
    /\ SubSeq(reply, Len(reply) - 1, Len(reply)) = CRLF

\* C8, amended: when the parser fails on the request read from a connection,
\* the reply begins with "-ERR " and ends with CRLF and the keyspace is as it
\* was; the connection is still registered and open unless the send of that
\* reply failed with an error other than EAGAIN.
C8_ParserFailure ==
    (last.read = "data" /\ ParseFails(last.request)) =>
        /\ IsErrReply(last.reply)
        /\ data = last.before
        /\ last.send # "error" => cstate[last.conn] = "open"

\* a request the parser failed on was answered in full on a connection still
\* open, the keyspace holding a pair
C8_Witness ==
    /\ last.read = "data"
    /\ ParseFails(last.request)
    /\ last.send = "all"
    /\ IsErrReply(last.reply)
    /\ cstate[last.conn] = "open"
    /\ data # EmptyMap

\* C8 as stated: after the parser failed on a request, the connection is
\* still registered and open, whatever became of the reply.
C8_StaysOpen ==
    (last.read = "data" /\ ParseFails(last.request)) =>
        /\ IsErrReply(last.reply)
        /\ data = last.before
        /\ cstate[last.conn] = "open"


-----------------------------------------------------------------------------
(* Claims about the messages of error replies                              *)

\* the message createErrorResponse was given for this reply
MessageOf(reply) == SubSeq(reply, 2, Len(reply) - 2)

\* C11 as stated: the message of every error reply of handle_request holds
\* neither CR nor LF, so the reply is one line ended by one CRLF.
C11_SingleLineMessages ==
    (hpc = "returned" /\ response # <<>> /\ response[1] = "-") =>
        \A i \in 1..Len(MessageOf(response)) : MessageOf(response)[i] \notin {"\r", "\n"}


-----------------------------------------------------------------------------
(* Claims about the parser                                                 *)

\* the values and the bytes of the first n frames of the buffer's source
ValuesOf(fs, n) == [i \in 1..n |-> fs[i].value]
BytesOf(fs, n)  == Len(ConcatBytes(SubSeq(fs, 1, n)))

\* C12: on a buffer of well-formed frames the calls of parse neither throw
\* nor read out of bounds; after each call the values returned are those of
\* the frames so far, in order, and the cursor is just past the last of
\* them; when the calls end every frame was returned and the cursor is the
\* length of the buffer.
C12_FramesInOrder ==
    psrc.kind = "frames" =>
        /\ ppc \in {"more", "done"}
        /\ Len(pgot) <= Len(psrc.frames)
        /\ pgot = ValuesOf(psrc.frames, Len(pgot))
        /\ ppos = BytesOf(psrc.frames, Len(pgot))
        /\ ppc = "done" => Len(pgot) = Len(psrc.frames) /\ ppos = Len(pbuf)

\* two frames were returned, an array holding an array and a null bulk
C12_Witness ==
    /\ psrc.kind = "frames"
    /\ ppc = "done"
    /\ Len(pgot) = 2
    /\ pgot[1].type = "Array"
    /\ Len(pgot[1].arrayValue) = 2
    /\ pgot[1].arrayValue[2].type = "Array"
    /\ pgot[2] = RESPValue("Null")
    /\ ppos = Len(pbuf)

\* C13: the reply createRESPResponse(v) parses to one BulkString whose
\* strValue is v, the cursor ending at the end of the reply.
C13_BulkRoundTrip ==
    (psrc.kind = "encoded" /\ ppc # "more") =>
        /\ ppc = "done"
        /\ pgot = <<psrc.frames[1].value>>
        /\ pgot[1].type = "BulkString"
        /\ ppos = Len(pbuf)

\* the reply encoded from the string "\r\n$" was parsed back
C13_Witness ==
    /\ psrc.kind = "encoded"
    /\ ppc = "done"
    /\ pbuf = createRESPResponse(<<"\r", "\n", "$">>)
    /\ pgot = <<StrValue("BulkString", <<"\r", "\n", "$">>)>>
    /\ ppos = Len(pbuf)


-----------------------------------------------------------------------------
(* Claims about the reads of a worker                                      *)

\* C19: the bytes of a connection are taken only by a step that also takes
\* its pending event, and that step takes the first 1024 of them or, when
\* there are fewer, all: what is beyond stays unread with no event pending
\* until another edge comes.
C19_OneReadPerEvent ==
    [][\A c \in Conns :
          (inbuf'[c] # inbuf[c] /\ Len(inbuf'[c]) <= Len(inbuf[c])) =>
              /\ ready[c] /\ ~ready'[c]
              /\ Len(inbuf[c]) - Len(inbuf'[c]) <= BUFFER_SIZE
              /\ inbuf'[c] = SubSeq(inbuf[c], BUFFER_SIZE + 1, Len(inbuf[c]))
              /\ last'.request = SubSeq(inbuf[c], 1, Len(inbuf[c]) - Len(inbuf'[c]))]_vars

\* a connection that is open holds unread bytes and has no event pending,
\* after a read that filled the buffer
C19_Witness ==
    \E c \in Conns :
        /\ cstate[c] = "open"
        /\ ~ready[c]
        /\ inbuf[c] # <<>>
        /\ last.conn = c
        /\ Len(last.request) = BUFFER_SIZE

\* C20: when the bytes of one read begin with a complete value, the reply
\* and the keyspace are those of handle_request on that value alone, one
\* reply is sent, and the bytes after the value are gone with the read.
C20_OnlyFirstFrame ==
    LET first == parse(last.request, 0)
    IN  (last.read = "data" /\ first.kind = "value") =>
            /\ \E out \in handle_request(last.before, SubSeq(last.request, 1, first.pos)) :
                  /\ last.reply = out.reply
                  /\ data = out.data
            /\ last.sent <= Len(last.reply)

\* one read brought GET a and then SET a a: the reply is that of the GET,
\* the keyspace is still empty, nothing is left to read and no event pends
C20_Witness ==
    /\ last.read = "data"
    /\ last.request = GetFrame \o SetFrame(<<"a">>)
    /\ last.reply = createMissingResponse
    /\ last.send = "all"
    /\ data = EmptyMap
    /\ inbuf[last.conn] = <<>>
    /\ ~ready[last.conn]
    /\ cstate[last.conn] = "open"


-----------------------------------------------------------------------------
(* Claims about the server and its workers                                 *)

RECURSIVE RequestsOf(_)
RequestsOf(log) == IF log = <<>> THEN <<>> ELSE Head(log).request \o RequestsOf(Tail(log))

\* what one read can hold, the keyspaces it can meet, and what
\* handle_request returns for each
ServerReads ==
    {Flatten(rs) : rs \in UNION {[1..n -> ServerRequests] : n \in 1..MaxWrites}}
ServerStates == {EmptyMap} \cup {[k \in {NetKey} |-> v] : v \in {<<"a">>}}
Handled == [b \in ServerStates, r \in ServerReads |-> handle_request(b, r)]

\* C14: every read of bytes on a connection made one handler call and one
\* send of its reply, on the thread of the worker that accepted the
\* connection; the reads took the client's bytes in the order they arrived,
\* each call found the keyspace as the call before left it, and each reply
\* is the handler's for its read.
C14_OneThreadInOrder ==
    \A c \in ServerConns :
        /\ RequestsOf(calls[c]) \o inbuf[c] = arrived[c]
        /\ (last.conn = c /\ last.read = "data") =>
              /\ calls[c] # <<>>
              /\ calls[c][Len(calls[c])].request = last.request
              /\ calls[c][Len(calls[c])].reply = last.reply
              /\ last.send \in {"all", "partial", "again", "error"}
        /\ \A i \in 1..Len(calls[c]) :
              /\ calls[c][i].by = owner[c]
              /\ \E o \in Handled[calls[c][i].before, calls[c][i].request] :
                    /\ calls[c][i].reply = o.reply
                    /\ IF i < Len(calls[c]) THEN calls[c][i + 1].before = o.data
                       ELSE data = o.data

\* worker 2 read SET a a and then GET a on its connection, in two reads,
\* and replied +OK and then the value
C14_Witness ==
    /\ owner[1] = 2
    /\ Len(calls[1]) = 2
    /\ calls[1][1].request = SetFrame(<<"a">>)
    /\ calls[1][1].reply = createOKResponse
    /\ calls[1][2].request = GetFrame
    /\ calls[1][2].reply = createRESPResponse(<<"a">>)
    /\ calls[1][2].by = 2

\* C15 as stated: once stop is called it returns, and when it has returned
\* every worker's flag is false, every thread is joined and no connection
\* has an event being handled.
C15_StopCompletes ==
    /\ [](mpc \in {"stopped", "destroyed"} =>
            \A w \in Workers : ~wrun[w] /\ wth[w] = "joined")
    /\ (mpc = "stopping") ~> (mpc = "stopped")

\* C16: after a handleClient call the connection is closed exactly when the
\* read returned 0 or failed otherwise than with EAGAIN, or the send failed
\* otherwise than with EAGAIN; and an accepted connection is closed by
\* nothing else.
C16_ClosedExactlyOn ==
    /\ last.conn # 0 =>
          (cstate[last.conn] = "closed"
              <=> (last.read \in {"eof", "error"} \/ last.send = "error"))
    /\ \A c \in ServerConns : (cstate[c] = "closed" /\ mpc # "destroyed") => last.conn = c

\* a read met EAGAIN and the connection is still open
C16_Witness ==
    /\ last.conn = 1
    /\ last.read = "again"
    /\ cstate[1] = "open"
    /\ Len(calls[1]) = 1

\* C17 as stated: when a worker met a reactor error its loop has ended and
\* the process lives on.
C17_ErrorConfined ==
    \A w \in Workers : werr[w] # "none" => (wpc = "running" /\ wth[w] \in {"left", "joined"})

\* C18 as stated: once the workers are destroyed no connection they
\* accepted is open.
C18_ClosedAtDestruction ==
    mpc = "destroyed" => \A c \in ServerConns : cstate[c] # "open"


\* C21: a reply whose send met EAGAIN or took only part of it leaves the
\* connection open and the command applied to the keyspace; and what a step
\* puts on a connection is the sent part of the reply made in that very
\* step, so the unsent bytes of a reply are never sent.
C21_UnsentDropped ==
    /\ [](\A c \in Conns :
            (last.conn = c /\ last.read = "data" /\ last.send \in {"again", "partial"}) =>
                /\ cstate[c] = "open"
                /\ last.sent < Len(last.reply)
                /\ \E out \in handle_request(last.before, last.request) :
                      last.reply = out.reply /\ data = out.data)
    /\ [][\A c \in Conns :
            \/ wire'[c] = wire[c]
            \/ /\ last'.conn = c
               /\ last'.read = "data"
               /\ wire'[c] = wire[c] \o SubSeq(last'.reply, 1, last'.sent)]_vars

\* SET a a was applied although its client got only the first byte of +OK;
\* the connection stayed open and the next thing on it is the reply to
\* GET a, the value
C21_Witness ==
    /\ cstate[1] = "open"
    /\ data = [k \in {NetKey} |-> <<"a">>]
    /\ last.conn = 1
    /\ last.request = GetFrame
    /\ last.send = "all"
    /\ wire[1] = <<"+">> \o createRESPResponse(<<"a">>)


-----------------------------------------------------------------------------
(* Claims about the arguments of a command                                 *)

\* the text an argument stands for: that of a string or an error, none for
\* an integer, a null and an array
ArgText(v) == IF v.type \in {"Integer", "Null", "Array"} THEN <<>> ELSE v.strValue

\* the command a parsed array is taken for, or none
TakenFor(a) ==
    LET name == a.arrayValue[1].strValue
        size == Len(a.arrayValue)
    IN  IF name = GET /\ size = 2
        THEN {[name |-> "GET", key |-> ArgText(a.arrayValue[2])]}
        ELSE IF name = DEL /\ size = 2
        THEN {[name |-> "DEL", key |-> ArgText(a.arrayValue[2])]}
        ELSE IF name = SET /\ size = 3
        THEN {[name |-> "SET", key |-> ArgText(a.arrayValue[2]),
               value |-> ArgText(a.arrayValue[3])]}
        ELSE {}

\* C22: a GET, SET or DEL whose name is a string and whose element count
\* fits is carried out whatever the types of its arguments, on the text of
\* each argument: that of a bulk string, simple string or error, and the
\* empty string for an integer, a null and an array.
C22_ArgumentsByStrValue ==
    hpc = "returned" =>
        LET r == parse(request, 0)
        IN  (r.kind = "value" /\ r.val.type = "Array" /\ r.val.arrayValue # <<>>
                /\ r.val.arrayValue[1].type \in {"BulkString", "SimpleString"}) =>
                \A c \in TakenFor(r.val) :
                    /\ response = RefReply(Pairs(before), c)
                    /\ Pairs(data) = RefApply(Pairs(before), c)

\* GET with the integer 5 as its key replied the value bound to the empty key
C22_Witness ==
    /\ hpc = "returned"
    /\ request = ArrayHeader(2) \o BulkFrame(GET) \o <<":", "5", "\r", "\n">>
    /\ before = [k \in {<<>>} |-> <<"a">>]
    /\ response = createRESPResponse(<<"a">>)

\* SET with an empty array as key and an array as value bound the empty key
\* to the empty value
C22_WitnessSet ==
    /\ hpc = "returned"
    /\ request = ArrayHeader(3) \o BulkFrame(SET) \o ArrayHeader(0)
                    \o ArrayHeader(1) \o BulkFrame(<<"a">>)
    /\ before = EmptyMap
    /\ data = [k \in {<<>>} |-> <<>>]
    /\ response = createOKResponse

=============================================================================
